---- MODULE Spec2Model ----
(***************************************************************************)
(* A model of the aggregation-and-shipping pipeline of apitally-go: the    *)
(* four metric aggregators, the request logger and the sync client.        *)
(* Goroutines are threads with a program counter pc[t], a stack of return  *)
(* labels stack[t] and locals loc[t].  A step is what one goroutine does   *)
(* between two points at which another goroutine can observe or change     *)
(* shared state: the body of a critical section, one channel operation,    *)
(* one load or store of an unlocked map.                                   *)
(***************************************************************************)
EXTENDS Integers, Sequences, FiniteSets, TLC

\* ------------------------------------------------------------ bounds
\* calls of Add* the request handlers make in one behaviour
MaxAdds == 2
\* drain calls made directly (outside sendSyncData) in one behaviour
MaxDrains == 2

\* ------------------------------------------------------------ threads
Handlers == {"h1", "h2"}
None == "none"
NoTime == -1
NoFile == 0

VARIABLES
    pc,        \* pc[t]: the label thread t is at; "off" = not started, "idle" = between calls
    stack,     \* stack[t]: labels to return to, innermost first
    loc,       \* loc[t]: the locals of the call thread t is in
    fatal,     \* the runtime has ended the process (fatal error or unrecovered panic)
    rc,        \* RequestCounter: its six maps
    sec,       \* ServerErrorCounter: errorCounts, errorDetails
    vec,       \* ValidationErrorCounter: errorCounts, errorDetails
    cr,        \* ConsumerRegistry: consumers, updated
    aggGhost,  \* history: calls made and results drained (not program state)
    now,              \* the clock, in hours
    rlEnabled,        \* RequestLogger.enabled
    suspendUntil,     \* RequestLogger.suspendUntil, NoTime = nil
    pendingWrites,    \* RequestLogger.pendingWrites: the buffered channel's content
    currentFile,      \* RequestLogger.currentFile: a file id, NoFile = nil
    files,            \* RequestLogger.files: the buffered channel's content (file ids)
    rlDone,           \* RequestLogger.done: "nil", "open" or "closed"
    enabledMutex,     \* RequestLogger.enabledMutex: the goroutine holding it, or None
    currentFileMutex, \* RequestLogger.currentFileMutex: the goroutine holding it, or None
    disk,             \* the TempGzipFiles created so far: size, closed, deleted
    logGhost,         \* history: LogRequest calls made, records evicted (not program state)
    enabled,          \* ApitallyClient.enabled
    syncStopped,      \* ApitallyClient.syncStopped
    done,             \* ApitallyClient.done: "open" or "closed"
    syncDataChan,     \* ApitallyClient.syncDataChan: the buffered channel's content
    startupData,      \* ApitallyClient.startupData is set (not nil)
    startupDataSent,  \* ApitallyClient.startupDataSent
    mutex,            \* ApitallyClient.mutex: the goroutine holding it, or None
    syncGhost         \* history: syncs started, hub requests issued and answered

thrV == <<pc, stack, loc, fatal>>
aggV == <<rc, sec, vec, cr>>
logV == <<rlEnabled, suspendUntil, pendingWrites, currentFile, files, rlDone,
          enabledMutex, currentFileMutex, disk, logGhost>>
cliV == <<enabled, syncStopped, done, syncDataChan, startupData, startupDataSent, mutex,
          syncGhost>>
nonAggV == <<now, logV, cliV>>
nonLogV == <<aggV, aggGhost, cliV>>
vars == <<pc, stack, loc, fatal, rc, sec, vec, cr, aggGhost, now, rlEnabled, suspendUntil,
          pendingWrites, currentFile, files, rlDone, enabledMutex, currentFileMutex, disk,
          logGhost, enabled, syncStopped, done, syncDataChan, startupData, startupDataSent,
          mutex, syncGhost>>

\* ------------------------------------------------------------ helpers
\* Go map access: the zero value for a missing key
Get(m, k) == IF k \in DOMAIN m THEN m[k] ELSE 0
Put(m, k, v) == [x \in DOMAIN m \cup {k} |-> IF x = k THEN v ELSE m[x]]
EmptyMap == [x \in {} |-> 0]

RECURSIVE SetToSeq(_)
SetToSeq(S) == IF S = {} THEN <<>>
               ELSE LET x == CHOOSE y \in S : TRUE IN <<x>> \o SetToSeq(S \ {x})

RECURSIVE SumOver(_, _)
SumOver(S, f) == IF S = {} THEN 0
                 ELSE LET x == CHOOSE y \in S : TRUE IN f[x] + SumOver(S \ {x}, f)
MapSum(m) == SumOver(DOMAIN m, m)

RECURSIVE SeqSum(_)
SeqSum(s) == IF s = <<>> THEN 0 ELSE Head(s) + SeqSum(Tail(s))

Goto(t, l) == pc' = [pc EXCEPT ![t] = l]
Return(t) == /\ pc' = [pc EXCEPT ![t] = Head(stack[t])]
             /\ stack' = [stack EXCEPT ![t] = Tail(stack[t])]
NoLocals == [op |-> None]

\* ------------------------------------------------------------ RequestCounter
\* AddRequest's arguments; responseTime is in tenths of a millisecond (45.7 ms = 457)
ReqInputs == {
    [consumer |-> "acme", method |-> "GET",  path |-> "/items", status |-> 200, rt10 |-> 457, reqSize |-> 0,    respSize |-> 3789],
    [consumer |-> "acme", method |-> "GET",  path |-> "/items", status |-> 200, rt10 |-> 99,  reqSize |-> -1,   respSize |-> 999],
    [consumer |-> "acme", method |-> "GET",  path |-> "/items", status |-> 404, rt10 |-> 100, reqSize |-> 1000, respSize |-> -1],
    [consumer |-> "beta", method |-> "POST", path |-> "/items", status |-> 201, rt10 |-> 601, reqSize |-> 2123, respSize |-> 0] }

RequestKey(in) == <<in.consumer, in.method, in.path, in.status>>

\* a bin computed by rounding to the nearest 10 ms instead of flooring
ResponseTimeBinNearest(rt10) == ((rt10 + 50) \div 100) * 10
\* int(math.Floor(responseTime/10) * 10)
ResponseTimeBin(rt10) == (rt10 \div 100) * 10
\* int(math.Floor(float64(size) / 1000))
SizeKbBin(size) == size \div 1000

NewRequestCounter == [requestCounts |-> EmptyMap, requestSizeSums |-> EmptyMap,
                      responseSizeSums |-> EmptyMap, responseTimes |-> EmptyMap,
                      requestSizes |-> EmptyMap, responseSizes |-> EmptyMap]

\* AddRequest without the two tests of the sign of a size
AddRequestOpsUnguarded(in) ==
    LET k == RequestKey(in) IN
    << [map |-> "requestCounts",    cell |-> k,                              by |-> 1,           runs |-> TRUE],
       [map |-> "responseTimes",    cell |-> <<k, ResponseTimeBin(in.rt10)>>, by |-> 1,           runs |-> TRUE],
       [map |-> "requestSizeSums",  cell |-> k,                              by |-> in.reqSize,  runs |-> TRUE],
       [map |-> "requestSizes",     cell |-> <<k, SizeKbBin(in.reqSize)>>,   by |-> 1,           runs |-> TRUE],
       [map |-> "responseSizeSums", cell |-> k,                              by |-> in.respSize, runs |-> TRUE],
       [map |-> "responseSizes",    cell |-> <<k, SizeKbBin(in.respSize)>>,  by |-> 1,           runs |-> TRUE] >>

\* The six statements of AddRequest that update a map, in source order:
\* the map, the cell of the map, the amount added, and whether the statement runs.
AddRequestOps(in) ==
    LET k == RequestKey(in) IN
    << [map |-> "requestCounts",    cell |-> k,                              by |-> 1,           runs |-> TRUE],
       [map |-> "responseTimes",    cell |-> <<k, ResponseTimeBin(in.rt10)>>, by |-> 1,           runs |-> TRUE],
       [map |-> "requestSizeSums",  cell |-> k,                              by |-> in.reqSize,  runs |-> in.reqSize >= 0],
       [map |-> "requestSizes",     cell |-> <<k, SizeKbBin(in.reqSize)>>,   by |-> 1,           runs |-> in.reqSize >= 0],
       [map |-> "responseSizeSums", cell |-> k,                              by |-> in.respSize, runs |-> in.respSize >= 0],
       [map |-> "responseSizes",    cell |-> <<k, SizeKbBin(in.respSize)>>,  by |-> 1,           runs |-> in.respSize >= 0] >>

\* the first statement at or after n that runs, 7 when there is none
RECURSIVE NextOp(_, _)
NextOp(ops, n) == IF n > Len(ops) THEN n
                  ELSE IF ops[n].runs THEN n ELSE NextOp(ops, n + 1)

\* histograms are kept per key: cell <<k, bin>> of a flattened map of maps
Histogram(m, k) == LET bins == {c[2] : c \in {d \in DOMAIN m : d[1] = k}}
                   IN [b \in bins |-> m[<<k, b>>]]

\* the slice GetAndResetRequests builds, one RequestsItem per key of requestCounts
RequestsItems(r) ==
    LET keys == SetToSeq(DOMAIN r.requestCounts) IN
    [i \in DOMAIN keys |->
        LET k == keys[i] IN
        [consumer |-> k[1], method |-> k[2], path |-> k[3], status |-> k[4],
         requestCount |-> r.requestCounts[k],
         requestSizeSum |-> Get(r.requestSizeSums, k),
         responseSizeSum |-> Get(r.responseSizeSums, k),
         responseTimes |-> Histogram(r.responseTimes, k),
         requestSizes |-> Histogram(r.requestSizes, k),
         responseSizes |-> Histogram(r.responseSizes, k)]]

ItemCounts(items) == SeqSum([i \in DOMAIN items |-> items[i].requestCount])

\* the counter after one AddRequest that no other goroutine interleaves with
RECURSIVE OpsApplied(_, _, _)
OpsApplied(r, ops, n) ==
    IF n > Len(ops) THEN r
    ELSE LET o == ops[n] IN
         OpsApplied([r EXCEPT ![o.map] = Put(@, o.cell, Get(@, o.cell) + o.by)],
                    ops, NextOp(ops, n + 1))
RequestAdded(r, in) == OpsApplied(r, AddRequestOps(in), 1)

\* AddRequest takes no lock: each map update is a load followed by a store, and
\* another goroutine can run between the two.
AddRequestBegin(t, in) ==
    /\ pc[t] = "idle" /\ ~fatal
    /\ t \in Handlers
    /\ aggGhost.nAdds < MaxAdds
    /\ Goto(t, "ar_load")
    /\ loc' = [loc EXCEPT ![t] = [op |-> "AddRequest", in |-> in, n |-> 1, tmp |-> 0]]
    /\ aggGhost' = [aggGhost EXCEPT !.nAdds = @ + 1, !.fresh.req = FALSE]
    /\ UNCHANGED <<stack, fatal, aggV>>
    /\ UNCHANGED nonAggV

AddRequestLoad(t) ==
    /\ pc[t] = "ar_load" /\ ~fatal
    /\ LET o == AddRequestOps(loc[t].in)[loc[t].n] IN
       loc' = [loc EXCEPT ![t].tmp = Get(rc[o.map], o.cell)]
    /\ Goto(t, "ar_store")
    /\ UNCHANGED <<stack, fatal, aggV, aggGhost>>
    /\ UNCHANGED nonAggV

AddRequestStore(t) ==
    /\ pc[t] = "ar_store" /\ ~fatal
    /\ LET ops == AddRequestOps(loc[t].in)
           o == ops[loc[t].n]
           n2 == NextOp(ops, loc[t].n + 1)
       IN /\ rc' = [rc EXCEPT ![o.map] = Put(@, o.cell, loc[t].tmp + o.by)]
          /\ IF n2 <= Len(ops)
             THEN /\ loc' = [loc EXCEPT ![t].n = n2]
                  /\ Goto(t, "ar_load")
                  /\ UNCHANGED aggGhost
             ELSE /\ loc' = [loc EXCEPT ![t] = NoLocals]
                  /\ Goto(t, "idle")
                  /\ aggGhost' = [aggGhost EXCEPT !.addsDone.req = @ + 1,
                                                  !.reqLog = Append(@, loc[t].in)]
    /\ UNCHANGED <<stack, fatal, sec, vec, cr>>
    /\ UNCHANGED nonAggV

\* Two goroutines inside the unlocked maps at once: the Go runtime may detect it
\* and end the process ("fatal error: concurrent map writes").
InRequestCounter(t) == pc[t] \in {"ar_load", "ar_store", "gr_reset"}
MapFault ==
    /\ ~fatal
    /\ \E t1, t2 \in DOMAIN pc : /\ t1 # t2
                                  /\ pc[t1] \in {"ar_load", "ar_store"}
                                  /\ InRequestCounter(t2)
    /\ fatal' = TRUE
    /\ UNCHANGED <<pc, stack, loc, aggV, aggGhost>>
    /\ UNCHANGED nonAggV

\* GetAndResetRequests takes no lock either: it reads the maps into the result,
\* then replaces them by empty ones.
GetAndResetRequestsRead(t) ==
    /\ pc[t] = "gr_req" /\ ~fatal
    /\ loc' = [loc EXCEPT ![t].requests = RequestsItems(rc)]
    /\ Goto(t, "gr_reset")
    /\ UNCHANGED <<stack, fatal, aggV, aggGhost>>
    /\ UNCHANGED nonAggV

GetAndResetRequestsReset(t) ==
    /\ pc[t] = "gr_reset" /\ ~fatal
    /\ rc' = NewRequestCounter
    /\ aggGhost' = [aggGhost EXCEPT
           !.drained.req = @ + ItemCounts(loc[t].requests),
           !.lastRequests = [items |-> loc[t].requests, log |-> aggGhost.reqLog],
           !.reqLog = <<>>,
           !.fresh.req = TRUE]
    /\ Return(t)
    /\ UNCHANGED <<loc, fatal, sec, vec, cr>>
    /\ UNCHANGED nonAggV

\* ------------------------------------------------------------ error counters
maxMsgLength == 2048
maxStacktraceLength == 65536
\* len("... (truncated)") and len("... (truncated) ...")
MsgSuffixLen == 15
StackSuffixLen == 19

\* A string is modelled by what the code looks at: an identity and a byte length.
\* A truncated message keeps `len` bytes of the text and carries the marker.
Str(id, n) == [text |-> id, len |-> n, marker |-> FALSE]
ByteLen(s) == s.len + (IF s.marker THEN MsgSuffixLen ELSE 0)

\* a truncation that cuts at the limit and then appends the marker
truncateAtLimit(msg) ==
    IF ByteLen(msg) <= maxMsgLength THEN msg
    ELSE [text |-> msg.text, len |-> maxMsgLength, marker |-> TRUE]

truncateExceptionMessage(msg) ==
    IF ByteLen(msg) <= maxMsgLength THEN msg
    ELSE [text |-> msg.text, len |-> maxMsgLength - MsgSuffixLen, marker |-> TRUE]

\* A stack trace is its lines; a line is a token and a byte length.
StackSuffix == [tok |-> "... (truncated) ...", len |-> StackSuffixLen]
RECURSIVE AccumulateLines(_, _, _)
AccumulateLines(lines, length, cutoff) ==
    IF lines = <<>> THEN <<>>
    ELSE IF length + Head(lines).len + 1 > cutoff THEN <<StackSuffix>>
    ELSE <<Head(lines)>> \o AccumulateLines(Tail(lines), length + Head(lines).len + 1, cutoff)

truncateExceptionStackTrace(stackTrace) ==
    LET lines == IF Len(stackTrace) > 5
                 THEN <<stackTrace[1]>> \o SubSeq(stackTrace, 6, Len(stackTrace))
                 ELSE stackTrace
    IN AccumulateLines(lines, 0, maxStacktraceLength - StackSuffixLen)

\* hexAddressRegex and goRoutineRegex, on the tokens the inputs use
HexTokens == {"0xc000012345", "0xc0000abcde"}
GoroutineTokens == {"goroutine 7", "goroutine 19"}
stripStackTraceForHashing(stackTrace) ==
    [i \in DOMAIN stackTrace |->
        IF stackTrace[i].tok \in HexTokens THEN "0x0"
        ELSE IF stackTrace[i].tok \in GoroutineTokens THEN "goroutine 0"
        ELSE stackTrace[i].tok]

\* strings.ToUpper and strings.TrimSpace on the values the inputs use
ToUpper(s) == CASE s = "get" -> "GET" [] s = "post" -> "POST" [] OTHER -> s
TrimSpace(s) == CASE s = " required " -> "required" [] s = "required " -> "required" [] OTHER -> s
\* strings.Split(loc, ".")
SplitLoc(l) == CASE l = "body.name" -> <<"body", "name">> [] l = "body" -> <<"body">>
                 [] l = "" -> <<"">> [] OTHER -> <<l>>

\* strings.Split(s, "|"): what fmt.Sprintf("%s|%s|...") makes of a value that holds
\* the separator itself, on the values the inputs use
Pieces(s) == CASE s = "acme|GET" -> <<"acme", "GET">>
               [] s = "GET|/items" -> <<"GET", "/items">>
               [] OTHER -> <<s>>

ErrInputs == {
    [consumer |-> "acme|GET", method |-> "GET", path |-> "/items", type |-> "errors.errorString",
     msg |-> Str("boom", 4),
     stack |-> <<[tok |-> "goroutine 7", len |-> 11], [tok |-> "main.f", len |-> 6], [tok |-> "0xc000012345", len |-> 12]>>],
    [consumer |-> "acme", method |-> "GET", path |-> "GET|/items", type |-> "errors.errorString",
     msg |-> Str("boom", 4),
     stack |-> <<[tok |-> "goroutine 7", len |-> 11], [tok |-> "main.f", len |-> 6], [tok |-> "0xc000012345", len |-> 12]>>],
    [consumer |-> "acme", method |-> "GET", path |-> "/items", type |-> "errors.errorString",
     msg |-> Str("boom", 4),
     stack |-> <<[tok |-> "goroutine 7", len |-> 11], [tok |-> "main.f", len |-> 6], [tok |-> "0xc000012345", len |-> 12]>>],
    [consumer |-> "acme", method |-> "get", path |-> "/items", type |-> "errors.errorString",
     msg |-> Str("boom", 4),
     stack |-> <<[tok |-> "goroutine 19", len |-> 12], [tok |-> "main.f", len |-> 6], [tok |-> "0xc0000abcde", len |-> 12]>>],
    [consumer |-> "acme", method |-> "GET", path |-> "/items", type |-> "errors.errorString",
     msg |-> Str("long", 3000),
     stack |-> <<[tok |-> "goroutine 7", len |-> 11], [tok |-> "main.g", len |-> 6]>>] }

\* a key made from the stack trace as it is
ServerErrorKeyOfRawStack(e) ==
    Pieces(e.consumer) \o Pieces(ToUpper(e.method)) \o Pieces(e.path) \o Pieces(e.type)
        \o <<e.msg>> \o <<[i \in DOMAIN e.stack |-> e.stack[i].tok]>>
\* the MD5 key, modelled by the string it hashes: the six values joined by "|",
\* which is the sequence of the pieces between the separators (the messages and
\* stack traces of the inputs hold no separator and are one piece each)
ServerErrorKey(e) ==
    Pieces(e.consumer) \o Pieces(ToUpper(e.method)) \o Pieces(e.path) \o Pieces(e.type)
        \o <<e.msg>> \o <<stripStackTraceForHashing(e.stack)>>

NewErrorCounter == [errorCounts |-> EmptyMap, errorDetails |-> EmptyMap]

ErrorItems(c) ==
    LET keys == SetToSeq({k \in DOMAIN c.errorCounts : k \in DOMAIN c.errorDetails}) IN
    [i \in DOMAIN keys |-> [details |-> c.errorDetails[keys[i]], errorCount |-> c.errorCounts[keys[i]]]]
ErrorItemCounts(items) == SeqSum([i \in DOMAIN items |-> items[i].errorCount])

\* an AddServerError that stores the details of every occurrence
ServerErrorAddedLastSeen(c, e) ==
    LET key == ServerErrorKey(e) IN
    [errorDetails |-> Put(c.errorDetails, key,
                          [consumer |-> e.consumer, method |-> e.method, path |-> e.path,
                           type |-> e.type, msg |-> truncateExceptionMessage(e.msg),
                           stack |-> truncateExceptionStackTrace(e.stack)]),
     errorCounts |-> Put(c.errorCounts, key, Get(c.errorCounts, key) + 1)]
\* the critical section of AddServerError
ServerErrorAdded(c, e) ==
    LET key == ServerErrorKey(e) IN
    [errorDetails |-> IF key \in DOMAIN c.errorDetails THEN c.errorDetails
                      ELSE Put(c.errorDetails, key,
                               [consumer |-> e.consumer, method |-> e.method, path |-> e.path,
                                type |-> e.type, msg |-> truncateExceptionMessage(e.msg),
                                stack |-> truncateExceptionStackTrace(e.stack)]),
     errorCounts |-> Put(c.errorCounts, key, Get(c.errorCounts, key) + 1)]

AddServerError(t, e) ==
    /\ pc[t] = "idle" /\ ~fatal
    /\ t \in Handlers
    /\ aggGhost.nAdds < MaxAdds
    /\ sec' = ServerErrorAdded(sec, e)
    /\ aggGhost' = [aggGhost EXCEPT !.nAdds = @ + 1, !.addsDone.srv = @ + 1,
                                    !.errLog.srv = Append(@, e), !.fresh.srv = FALSE]
    /\ UNCHANGED <<thrV, rc, vec, cr>>
    /\ UNCHANGED nonAggV

GetAndResetServerErrors(t) ==
    /\ pc[t] = "gr_srv" /\ ~fatal
    /\ loc' = [loc EXCEPT ![t].serverErrors = ErrorItems(sec)]
    /\ sec' = NewErrorCounter
    /\ aggGhost' = [aggGhost EXCEPT
           !.drained.srv = @ + ErrorItemCounts(ErrorItems(sec)),
           !.lastErrors.srv = [items |-> ErrorItems(sec), log |-> aggGhost.errLog.srv],
           !.errLog.srv = <<>>,
           !.fresh.srv = TRUE]
    /\ Return(t)
    /\ UNCHANGED <<fatal, rc, vec, cr>>
    /\ UNCHANGED nonAggV

ValInputs == {
    [consumer |-> "acme", method |-> "POST", path |-> "/items", loc |-> "body.name", msg |-> "required", type |-> "missing"],
    [consumer |-> "acme", method |-> "post", path |-> "/items", loc |-> "body.name", msg |-> "required ", type |-> "missing"],
    [consumer |-> "acme", method |-> "POST", path |-> "/items", loc |-> "body", msg |-> "required", type |-> "missing"] }

\* the MD5 key, modelled by the string it hashes, as for server errors
ValidationErrorKey(v) ==
    Pieces(v.consumer) \o Pieces(ToUpper(v.method)) \o Pieces(v.path) \o Pieces(v.loc)
        \o Pieces(TrimSpace(v.msg)) \o Pieces(v.type)

ValidationErrorAdded(c, v) ==
    LET key == ValidationErrorKey(v) IN
    [errorDetails |-> IF key \in DOMAIN c.errorDetails THEN c.errorDetails
                      ELSE Put(c.errorDetails, key,
                               [consumer |-> v.consumer, method |-> v.method, path |-> v.path,
                                loc |-> SplitLoc(v.loc), msg |-> v.msg, type |-> v.type]),
     errorCounts |-> Put(c.errorCounts, key, Get(c.errorCounts, key) + 1)]

AddValidationError(t, v) ==
    /\ pc[t] = "idle" /\ ~fatal
    /\ t \in Handlers
    /\ aggGhost.nAdds < MaxAdds
    /\ vec' = ValidationErrorAdded(vec, v)
    /\ aggGhost' = [aggGhost EXCEPT !.nAdds = @ + 1, !.addsDone.val = @ + 1,
                                    !.errLog.val = Append(@, v), !.fresh.val = FALSE]
    /\ UNCHANGED <<thrV, rc, sec, cr>>
    /\ UNCHANGED nonAggV

GetAndResetValidationErrors(t) ==
    /\ pc[t] = "gr_val" /\ ~fatal
    /\ loc' = [loc EXCEPT ![t].validationErrors = ErrorItems(vec)]
    /\ vec' = NewErrorCounter
    /\ aggGhost' = [aggGhost EXCEPT
           !.drained.val = @ + ErrorItemCounts(ErrorItems(vec)),
           !.lastErrors.val = [items |-> ErrorItems(vec), log |-> aggGhost.errLog.val],
           !.errLog.val = <<>>,
           !.fresh.val = TRUE]
    /\ Return(t)
    /\ UNCHANGED <<fatal, rc, sec, cr>>
    /\ UNCHANGED nonAggV

\* ------------------------------------------------------------ ConsumerRegistry
\* a consumer argument: nil, or identifier with name and group ("" = unset)
Consumer(id, name, group) == [nil |-> FALSE, identifier |-> id, name |-> name, group |-> group]
NilConsumer == [nil |-> TRUE, identifier |-> "", name |-> "", group |-> ""]
ConsumerInputs == {
    NilConsumer,
    Consumer("c1", "", ""),
    Consumer("c1", "Alice", ""),
    Consumer("c1", "Alice", "g1"),
    Consumer("c1", "Bob", ""),
    Consumer("c2", "", "g1") }

NewConsumerRegistry == [consumers |-> EmptyMap, updated |-> {}]

\* a registry that stores placeholders: only the nil argument is turned away
ConsumerAddedWithPlaceholders(r, consumer) ==
    IF consumer.nil THEN r
    ELSE IF consumer.identifier \notin DOMAIN r.consumers
    THEN [consumers |-> Put(r.consumers, consumer.identifier, consumer),
          updated |-> r.updated \cup {consumer.identifier}]
    ELSE LET existing == r.consumers[consumer.identifier]
             newName == consumer.name # "" /\ (existing.name = "" \/ consumer.name # existing.name)
             newGroup == consumer.group # "" /\ (existing.group = "" \/ consumer.group # existing.group)
             stored == Consumer(existing.identifier,
                                IF newName THEN consumer.name ELSE existing.name,
                                IF newGroup THEN consumer.group ELSE existing.group)
         IN [consumers |-> Put(r.consumers, consumer.identifier, stored),
             updated |-> IF newName \/ newGroup THEN r.updated \cup {consumer.identifier}
                         ELSE r.updated]

\* a registry that marks the identifier on every call that carries a name or a group
ConsumerAddedAlwaysUpdated(r, consumer) ==
    IF consumer.nil \/ (consumer.name = "" /\ consumer.group = "") THEN r
    ELSE LET known == consumer.identifier \in DOMAIN r.consumers
             existing == IF known THEN r.consumers[consumer.identifier] ELSE consumer
             stored == Consumer(consumer.identifier,
                                IF consumer.name # "" THEN consumer.name ELSE existing.name,
                                IF consumer.group # "" THEN consumer.group ELSE existing.group)
         IN [consumers |-> Put(r.consumers, consumer.identifier, stored),
             updated |-> r.updated \cup {consumer.identifier}]

\* the registry after AddOrUpdateConsumer(consumer)
ConsumerAdded(r, consumer) ==
    IF consumer.nil \/ (consumer.name = "" /\ consumer.group = "") THEN r
    ELSE IF consumer.identifier \notin DOMAIN r.consumers
    THEN [consumers |-> Put(r.consumers, consumer.identifier, consumer),
          updated |-> r.updated \cup {consumer.identifier}]
    ELSE LET existing == r.consumers[consumer.identifier]
             newName == consumer.name # "" /\ (existing.name = "" \/ consumer.name # existing.name)
             newGroup == consumer.group # "" /\ (existing.group = "" \/ consumer.group # existing.group)
             stored == Consumer(existing.identifier,
                                IF newName THEN consumer.name ELSE existing.name,
                                IF newGroup THEN consumer.group ELSE existing.group)
         IN [consumers |-> Put(r.consumers, consumer.identifier, stored),
             updated |-> IF newName \/ newGroup THEN r.updated \cup {consumer.identifier}
                         ELSE r.updated]

UpdatedConsumers(r) ==
    LET ids == SetToSeq({i \in r.updated : i \in DOMAIN r.consumers}) IN
    [i \in DOMAIN ids |-> r.consumers[ids[i]]]

AddOrUpdateConsumer(t, consumer) ==
    /\ pc[t] = "idle" /\ ~fatal
    /\ t \in Handlers
    /\ aggGhost.nAdds < MaxAdds
    /\ cr' = ConsumerAdded(cr, consumer)
    /\ aggGhost' = [aggGhost EXCEPT
           !.nAdds = @ + 1,
           !.addsDone.con = @ + Cardinality(ConsumerAdded(cr, consumer).updated \ cr.updated),
           !.conCalls = @ + 1,
           !.lastConsumer = consumer,
           !.fresh.con = FALSE]
    /\ UNCHANGED <<thrV, rc, sec, vec>>
    /\ UNCHANGED nonAggV

\* a drain that reports the dirty consumers and leaves them dirty
GetUpdatedConsumers(t) ==
    /\ pc[t] = "gr_con" /\ ~fatal
    /\ loc' = [loc EXCEPT ![t].consumers = UpdatedConsumers(cr)]
    /\ cr' = cr
    /\ aggGhost' = [aggGhost EXCEPT !.drained.con = @ + Len(UpdatedConsumers(cr)),
                                    !.fresh.con = TRUE]
    /\ Return(t)
    /\ UNCHANGED <<fatal, rc, sec, vec>>
    /\ UNCHANGED nonAggV

GetAndResetUpdatedConsumers(t) ==
    /\ pc[t] = "gr_con" /\ ~fatal
    /\ loc' = [loc EXCEPT ![t].consumers = UpdatedConsumers(cr)]
    /\ cr' = [cr EXCEPT !.updated = {}]
    /\ aggGhost' = [aggGhost EXCEPT !.drained.con = @ + Len(UpdatedConsumers(cr)),
                                    !.fresh.con = TRUE]
    /\ Return(t)
    /\ UNCHANGED <<fatal, rc, sec, vec>>
    /\ UNCHANGED nonAggV

\* ------------------------------------------------------------ RequestLogger
maxFileSize == 1000000
maxFiles == 50
maxPendingWrites == 100
\* time.Hour on the model's clock
Hour == 1
\* LogRequest calls made in one behaviour
MaxLogs == 2
\* the last value of the clock
MaxTime == 2
\* SuspendFor calls made directly (outside sendLogData) in one behaviour
MaxCtl == 1

Maintenance == "maint"
Orchestrator == "ctl"

\* excludePathPatterns, on the paths the inputs use
\* the paths among the inputs that match a pattern: "/healthz" matches the
\* built-in (?i)/_?healthz?$, "/internal/jobs" a pattern of config.ExcludePaths
ExcludedPaths == {"/healthz", "/internal/jobs"}
shouldExcludePath(path) == path \in ExcludedPaths
\* the User-Agent values among the inputs that match a built-in probe pattern
\* ((?i)kube-probe); the empty value is never excluded
shouldExcludeUserAgent(userAgent) == userAgent # "" /\ userAgent \in {"kube-probe/1.29"}
\* url.Parse(request.URL) returns an error (a host with an unclosed bracket)
UrlParseFails(url) == url = "http://[::1/items"

\* LogRequest's arguments: what the filters look at (the URL, the path, the
\* User-Agent header, the answer of config.ExcludeCallback for the request, false
\* when there is none) and the length of the serialized record
LogInput(url, path, userAgent, callback, size) ==
    [url |-> url, path |-> path, userAgent |-> userAgent, callback |-> callback, size |-> size]
LogInputs == {
    LogInput("http://h/healthz", "/healthz", "", FALSE, 300),
    LogInput("http://h/items", "/items", "curl/8.5", FALSE, maxFileSize),
    LogInput("http://h/internal/jobs", "/internal/jobs", "", FALSE, 300),
    LogInput("http://h/items", "/items", "kube-probe/1.29", FALSE, 300),
    LogInput("http://h/items", "/items", "", TRUE, 300),
    LogInput("http://[::1/items", "/items", "", FALSE, 300) }

\* a LogRequest that does not ask the exclusion callback
LogRequestSkipsWithoutCallback(in) ==
    \/ UrlParseFails(in.url)
    \/ shouldExcludePath(in.path)
    \/ shouldExcludeUserAgent(in.userAgent)
\* the returns of LogRequest between the test of the suspension and the masking
LogRequestSkips(in) ==
    \/ UrlParseFails(in.url)
    \/ shouldExcludePath(in.path)
    \/ shouldExcludeUserAgent(in.userAgent)
    \/ in.callback

\* a record in the queue: the length of its JSON text and, for reference, its
\* position in the order of enqueueing
Rec(size, stamp) == [size |-> size, stamp |-> stamp]
Last(q) == q[Len(q)]

\* what LogRequest removes from a full queue
DropNewest(q) == SubSeq(q, 1, Len(q) - 1)
DropOldest(q) == Tail(q)

\* a logger that stays suspended until the maintenance goroutine resumes it
IsSuspendedUntilResumed == suspendUntil # NoTime
\* rl.suspendUntil != nil && time.Now().Before(*rl.suspendUntil)
IsSuspendedNow == suspendUntil # NoTime /\ now < suspendUntil

\* the clock advances
Tick ==
    /\ ~fatal
    /\ now < MaxTime
    /\ now' = now + 1
    /\ UNCHANGED <<thrV, logV, nonLogV>>

LogRequestBegin(t, in) ==
    /\ pc[t] = "idle" /\ ~fatal
    /\ t \in Handlers
    /\ logGhost.nLogs < MaxLogs
    /\ Goto(t, "lr_enabled")
    /\ loc' = [loc EXCEPT ![t] = [op |-> "LogRequest", in |-> in, late |-> FALSE]]
    /\ logGhost' = [logGhost EXCEPT !.nLogs = @ + 1]
    /\ UNCHANGED <<stack, fatal, now, nonLogV>>
    /\ UNCHANGED <<rlEnabled, suspendUntil, pendingWrites, currentFile, files, rlDone,
                   enabledMutex, currentFileMutex, disk>>

\* !rl.IsEnabled(): lock, read, unlock
LogRequestIsEnabled(t) ==
    /\ pc[t] = "lr_enabled" /\ ~fatal
    /\ enabledMutex = None
    /\ IF rlEnabled THEN Goto(t, "lr_suspended") /\ UNCHANGED loc
       ELSE Goto(t, "idle") /\ loc' = [loc EXCEPT ![t] = NoLocals]
    /\ UNCHANGED <<stack, fatal, now, logV, nonLogV>>

\* rl.IsSuspended(): lock, read, unlock; then the exclusion filters, masking and
\* json.Marshal, which touch only the caller's request.  `late` notes (for
\* reference) that the test was made after a suspension window had run out.
LogRequestIsSuspended(t) ==
    /\ pc[t] = "lr_suspended" /\ ~fatal
    /\ enabledMutex = None
    /\ IF IsSuspendedNow \/ LogRequestSkips(loc[t].in)
       THEN Goto(t, "idle") /\ loc' = [loc EXCEPT ![t] = NoLocals]
       ELSE /\ Goto(t, "lr_send")
            /\ loc' = [loc EXCEPT ![t].late = logGhost.suspended]
    /\ UNCHANGED <<stack, fatal, now, logV, nonLogV>>

Enqueued(t) == Append(pendingWrites, Rec(loc[t].in.size, logGhost.stamp + 1))

\* select { case rl.pendingWrites <- item: default: ... }
LogRequestSend(t) ==
    /\ pc[t] = "lr_send" /\ ~fatal
    /\ IF Len(pendingWrites) < maxPendingWrites
       THEN /\ pendingWrites' = Enqueued(t)
            /\ logGhost' = [logGhost EXCEPT !.stamp = @ + 1, !.resumed = @ \/ loc[t].late]
            /\ Goto(t, "idle") /\ loc' = [loc EXCEPT ![t] = NoLocals]
       ELSE /\ Goto(t, "lr_drop")
            /\ UNCHANGED <<loc, pendingWrites, logGhost>>
    /\ UNCHANGED <<stack, fatal, now, nonLogV>>
    /\ UNCHANGED <<rlEnabled, suspendUntil, currentFile, files, rlDone, enabledMutex,
                   currentFileMutex, disk>>

\* select { case <-rl.pendingWrites: ... default: }
LogRequestDrop(t) ==
    /\ pc[t] = "lr_drop" /\ ~fatal
    /\ IF Len(pendingWrites) > 0
       THEN /\ pendingWrites' = DropOldest(pendingWrites)
            /\ Goto(t, "lr_resend") /\ UNCHANGED loc
       ELSE /\ Goto(t, "idle") /\ loc' = [loc EXCEPT ![t] = NoLocals]
            /\ UNCHANGED pendingWrites
    /\ UNCHANGED <<stack, fatal, now, nonLogV>>
    /\ UNCHANGED <<rlEnabled, suspendUntil, currentFile, files, rlDone, enabledMutex,
                   currentFileMutex, disk, logGhost>>

\* rl.pendingWrites <- item, a send that waits while the channel is full
LogRequestResend(t) ==
    /\ pc[t] = "lr_resend" /\ ~fatal
    /\ Len(pendingWrites) < maxPendingWrites
    /\ pendingWrites' = Enqueued(t)
    /\ logGhost' = [logGhost EXCEPT !.stamp = @ + 1, !.resumed = @ \/ loc[t].late]
    /\ Goto(t, "idle") /\ loc' = [loc EXCEPT ![t] = NoLocals]
    /\ UNCHANGED <<stack, fatal, now, nonLogV>>
    /\ UNCHANGED <<rlEnabled, suspendUntil, currentFile, files, rlDone, enabledMutex,
                   currentFileMutex, disk>>

\* ---- TempGzipFile
NewTempGzipFile == [size |-> 0, closed |-> FALSE, deleted |-> FALSE]
\* gzipWriter.Write returns an error on a writer that has been closed
WriteLineErr(f) == f.closed
\* a WriteLine that counts the line before it hands it to the gzip writer
WriteLineCounted(f, item) == [f EXCEPT !.size = @ + item.size + 1]
\* WriteLine: return on the writer's error, t.size += len(data) + 1 otherwise
WriteLine(f, item) == IF WriteLineErr(f) THEN f ELSE [f EXCEPT !.size = @ + item.size + 1]
CloseFile(f) == [f EXCEPT !.closed = TRUE]
\* a Delete that closes the file and leaves it on disk
KeepFile(f) == [f EXCEPT !.closed = TRUE]
\* Delete: Close, then os.Remove
DeleteFile(f) == [f EXCEPT !.closed = TRUE, !.deleted = TRUE]

\* ---- RetryFileLater(file): the queue and the disk after the non-blocking send,
\* which deletes the file when the queue is full
\* a retry that puts the file at the front of the queue
RetriedFilesFront(file) == IF Len(files) < maxFiles THEN <<file>> \o files ELSE files
RetriedFiles(file) == IF Len(files) < maxFiles THEN Append(files, file) ELSE files
RetriedDisk(file) == IF Len(files) < maxFiles THEN disk
                     ELSE [disk EXCEPT ![file] = DeleteFile(@)]

\* ---- rotateFile
Call(t, entry, ret) == /\ pc' = [pc EXCEPT ![t] = entry]
                       /\ stack' = [stack EXCEPT ![t] = <<ret>> \o stack[t]]

RotateFileLock(t) ==
    /\ pc[t] = "rf_lock" /\ ~fatal
    /\ currentFileMutex = None
    /\ currentFileMutex' = t
    /\ Goto(t, "rf_body")
    /\ UNCHANGED <<stack, loc, fatal, now, nonLogV>>
    /\ UNCHANGED <<rlEnabled, suspendUntil, pendingWrites, currentFile, files, rlDone,
                   enabledMutex, disk, logGhost>>

\* Close the current file and send it to rl.files if there is room
RotateFileBody(t) ==
    /\ pc[t] = "rf_body" /\ ~fatal
    /\ IF currentFile = NoFile
       THEN /\ currentFileMutex' = None
            /\ Return(t)
            /\ UNCHANGED <<currentFile, files, disk>>
       ELSE /\ disk' = [disk EXCEPT ![currentFile] = CloseFile(@)]
            /\ IF Len(files) < maxFiles
               THEN /\ files' = Append(files, currentFile)
                    /\ currentFile' = NoFile
                    /\ currentFileMutex' = None
                    /\ Return(t)
               ELSE /\ Goto(t, "rf_full")
                    /\ UNCHANGED <<stack, currentFile, files, currentFileMutex>>
    /\ UNCHANGED <<loc, fatal, now, nonLogV>>
    /\ UNCHANGED <<rlEnabled, suspendUntil, pendingWrites, rlDone, enabledMutex, logGhost>>

\* rl.files is full: delete the oldest file, or the current one if none can be taken
RotateFileFull(t) ==
    /\ pc[t] = "rf_full" /\ ~fatal
    /\ IF Len(files) > 0
       THEN /\ disk' = [disk EXCEPT ![Head(files)] = DeleteFile(@)]
            /\ files' = Tail(files)
            /\ Goto(t, "rf_resend")
            /\ UNCHANGED <<stack, currentFile, currentFileMutex>>
       ELSE /\ disk' = [disk EXCEPT ![currentFile] = DeleteFile(@)]
            /\ currentFile' = NoFile
            /\ currentFileMutex' = None
            /\ Return(t)
            /\ UNCHANGED files
    /\ UNCHANGED <<loc, fatal, now, nonLogV>>
    /\ UNCHANGED <<rlEnabled, suspendUntil, pendingWrites, rlDone, enabledMutex, logGhost>>

\* rl.files <- rl.currentFile, a send that waits while the channel is full
RotateFileResend(t) ==
    /\ pc[t] = "rf_resend" /\ ~fatal
    /\ Len(files) < maxFiles
    /\ files' = Append(files, currentFile)
    /\ currentFile' = NoFile
    /\ currentFileMutex' = None
    /\ Return(t)
    /\ UNCHANGED <<loc, fatal, now, nonLogV>>
    /\ UNCHANGED <<rlEnabled, suspendUntil, pendingWrites, rlDone, enabledMutex, disk, logGhost>>

\* ---- Clear
\* for len(rl.pendingWrites) > 0
ClearPendingCheck(t) ==
    /\ pc[t] = "cl_pending" /\ ~fatal
    /\ IF Len(pendingWrites) > 0
       THEN Goto(t, "cl_pending_recv") /\ UNCHANGED stack
       ELSE Call(t, "rf_lock", "cl_files")
    /\ UNCHANGED <<loc, fatal, now, logV, nonLogV>>

\* <-rl.pendingWrites, a receive that waits while the channel is empty
ClearPendingRecv(t) ==
    /\ pc[t] = "cl_pending_recv" /\ ~fatal
    /\ Len(pendingWrites) > 0
    /\ pendingWrites' = Tail(pendingWrites)
    /\ Goto(t, "cl_pending")
    /\ UNCHANGED <<stack, loc, fatal, now, nonLogV>>
    /\ UNCHANGED <<rlEnabled, suspendUntil, currentFile, files, rlDone, enabledMutex,
                   currentFileMutex, disk, logGhost>>

\* for len(rl.files) > 0
ClearFilesCheck(t) ==
    /\ pc[t] = "cl_files" /\ ~fatal
    /\ IF Len(files) > 0
       THEN Goto(t, "cl_files_recv") /\ UNCHANGED stack
       ELSE Return(t)
    /\ UNCHANGED <<loc, fatal, now, logV, nonLogV>>

\* file := <-rl.files; file.Delete(), whose error (the file is gone already) ends Clear
ClearFilesRecv(t) ==
    /\ pc[t] = "cl_files_recv" /\ ~fatal
    /\ Len(files) > 0
    /\ files' = Tail(files)
    /\ IF disk[Head(files)].deleted
       THEN Return(t) /\ UNCHANGED disk
       ELSE /\ disk' = [disk EXCEPT ![Head(files)] = DeleteFile(@)]
            /\ Goto(t, "cl_files") /\ UNCHANGED stack
    /\ UNCHANGED <<loc, fatal, now, nonLogV>>
    /\ UNCHANGED <<rlEnabled, suspendUntil, pendingWrites, currentFile, rlDone, enabledMutex,
                   currentFileMutex, logGhost>>

\* ---- SuspendFor
\* lock enabledMutex, set suspendUntil, call Clear
SuspendForLock(t) ==
    /\ pc[t] = "sf_lock" /\ ~fatal
    /\ enabledMutex = None
    /\ enabledMutex' = t
    /\ suspendUntil' = now + loc[t].duration
    /\ Call(t, "cl_pending", "sf_unlock")
    /\ UNCHANGED <<loc, fatal, now, nonLogV>>
    /\ UNCHANGED <<rlEnabled, pendingWrites, currentFile, files, rlDone, currentFileMutex,
                   disk, logGhost>>

\* the deferred unlock: SuspendFor returns
SuspendForUnlock(t) ==
    /\ pc[t] = "sf_unlock" /\ ~fatal
    /\ enabledMutex' = None
    /\ logGhost' = [logGhost EXCEPT !.suspended = TRUE]
    /\ Return(t)
    /\ UNCHANGED <<loc, fatal, now, nonLogV>>
    /\ UNCHANGED <<rlEnabled, suspendUntil, pendingWrites, currentFile, files, rlDone,
                   currentFileMutex, disk>>

\* ---- writeToFile
WriteToFileLock(t) ==
    /\ pc[t] = "wf_lock" /\ ~fatal
    /\ currentFileMutex = None
    /\ currentFileMutex' = t
    /\ Goto(t, "wf_first")
    /\ UNCHANGED <<stack, loc, fatal, now, nonLogV>>
    /\ UNCHANGED <<rlEnabled, suspendUntil, pendingWrites, currentFile, files, rlDone,
                   enabledMutex, disk, logGhost>>

\* select { case item := <-rl.pendingWrites: open a file if none is open, write the
\* item; default: return nil }
WriteToFileFirst(t) ==
    /\ pc[t] = "wf_first" /\ ~fatal
    /\ IF Len(pendingWrites) > 0
       THEN LET opened == IF currentFile = NoFile THEN Append(disk, NewTempGzipFile) ELSE disk
                f == IF currentFile = NoFile THEN Len(disk) + 1 ELSE currentFile
            IN /\ pendingWrites' = Tail(pendingWrites)
               /\ currentFile' = f
               /\ disk' = [opened EXCEPT ![f] = WriteLine(@, Head(pendingWrites))]
               /\ Goto(t, "wf_loop")
               /\ UNCHANGED <<stack, currentFileMutex>>
       ELSE /\ currentFileMutex' = None
            /\ Return(t)
            /\ UNCHANGED <<pendingWrites, currentFile, disk>>
    /\ UNCHANGED <<loc, fatal, now, nonLogV>>
    /\ UNCHANGED <<rlEnabled, suspendUntil, files, rlDone, enabledMutex, logGhost>>

\* for len(rl.pendingWrites) > 0
WriteToFileLoopCheck(t) ==
    /\ pc[t] = "wf_loop" /\ ~fatal
    /\ IF Len(pendingWrites) > 0
       THEN Goto(t, "wf_recv") /\ UNCHANGED <<stack, currentFileMutex>>
       ELSE currentFileMutex' = None /\ Return(t)
    /\ UNCHANGED <<loc, fatal, now, nonLogV>>
    /\ UNCHANGED <<rlEnabled, suspendUntil, pendingWrites, currentFile, files, rlDone,
                   enabledMutex, disk, logGhost>>

\* item := <-rl.pendingWrites, a receive that waits while the channel is empty
WriteToFileLoopRecv(t) ==
    /\ pc[t] = "wf_recv" /\ ~fatal
    /\ Len(pendingWrites) > 0
    /\ pendingWrites' = Tail(pendingWrites)
    /\ disk' = [disk EXCEPT ![currentFile] = WriteLine(@, Head(pendingWrites))]
    /\ Goto(t, "wf_loop")
    /\ UNCHANGED <<stack, loc, fatal, now, nonLogV>>
    /\ UNCHANGED <<rlEnabled, suspendUntil, currentFile, files, rlDone, enabledMutex,
                   currentFileMutex, logGhost>>

\* ---- maintain
\* case <-ticker.C: writeToFile
MaintainTick(t) ==
    /\ pc[t] = "mt_idle" /\ ~fatal
    /\ Call(t, "wf_lock", "mt_size")
    /\ UNCHANGED <<loc, fatal, now, logV, nonLogV>>

\* case <-rl.done: return
MaintainDone(t) ==
    /\ pc[t] = "mt_idle" /\ ~fatal
    /\ rlDone = "closed"
    /\ Goto(t, "done")
    /\ UNCHANGED <<stack, loc, fatal, now, logV, nonLogV>>

\* shouldRotate, read under currentFileMutex; rotateFile if it is set
MaintainCheckSize(t) ==
    /\ pc[t] = "mt_size" /\ ~fatal
    /\ currentFileMutex = None
    /\ IF currentFile # NoFile /\ disk[currentFile].size > maxFileSize
       THEN Call(t, "rf_lock", "mt_prune")
       ELSE Goto(t, "mt_prune") /\ UNCHANGED stack
    /\ UNCHANGED <<loc, fatal, now, logV, nonLogV>>

\* for len(rl.files) > maxFiles { delete the oldest }
MaintainPrune(t) ==
    /\ pc[t] = "mt_prune" /\ ~fatal
    /\ IF Len(files) > maxFiles
       THEN /\ files' = Tail(files)
            /\ disk' = [disk EXCEPT ![Head(files)] = DeleteFile(@)]
            /\ UNCHANGED pc
       ELSE /\ Goto(t, "mt_resume")
            /\ UNCHANGED <<files, disk>>
    /\ UNCHANGED <<stack, loc, fatal, now, nonLogV>>
    /\ UNCHANGED <<rlEnabled, suspendUntil, pendingWrites, currentFile, rlDone, enabledMutex,
                   currentFileMutex, logGhost>>

\* resume when the suspension is over, under enabledMutex
MaintainResume(t) ==
    /\ pc[t] = "mt_resume" /\ ~fatal
    /\ enabledMutex = None
    /\ suspendUntil' = IF suspendUntil # NoTime /\ now > suspendUntil THEN NoTime ELSE suspendUntil
    /\ Goto(t, "mt_idle")
    /\ UNCHANGED <<stack, loc, fatal, now, nonLogV>>
    /\ UNCHANGED <<rlEnabled, pendingWrites, currentFile, files, rlDone, enabledMutex,
                   currentFileMutex, disk, logGhost>>

\* ---- Close
\* if rl.IsEnabled(): lock, read, unlock
CloseIsEnabled(t) ==
    /\ pc[t] = "close" /\ ~fatal
    /\ enabledMutex = None
    /\ IF rlEnabled THEN Goto(t, "close_lock") /\ UNCHANGED stack
       ELSE Call(t, "cl_pending", "close_ret")
    /\ UNCHANGED <<loc, fatal, now, logV, nonLogV>>

\* lock (unlock deferred), enabled = false, close(done), then Clear
CloseLock(t) ==
    /\ pc[t] = "close_lock" /\ ~fatal
    /\ enabledMutex = None
    /\ enabledMutex' = t
    /\ rlEnabled' = FALSE
    /\ IF rlDone = "closed"
       THEN fatal' = TRUE /\ UNCHANGED <<pc, stack, rlDone>>
       ELSE /\ rlDone' = IF rlDone = "open" THEN "closed" ELSE rlDone
            /\ Call(t, "cl_pending", "close_unlock")
            /\ UNCHANGED fatal
    /\ UNCHANGED <<loc, now, nonLogV>>
    /\ UNCHANGED <<suspendUntil, pendingWrites, currentFile, files, currentFileMutex, disk,
                   logGhost>>

CloseUnlock(t) ==
    /\ pc[t] = "close_unlock" /\ ~fatal
    /\ enabledMutex' = None
    /\ Goto(t, "close_ret")
    /\ UNCHANGED <<stack, loc, fatal, now, nonLogV>>
    /\ UNCHANGED <<rlEnabled, suspendUntil, pendingWrites, currentFile, files, rlDone,
                   currentFileMutex, disk, logGhost>>

CloseReturn(t) ==
    /\ pc[t] = "close_ret" /\ ~fatal
    /\ Return(t)
    /\ UNCHANGED <<loc, fatal, now, logV, nonLogV>>

\* ---- a goroutine calls SuspendFor(time.Hour) directly
CtlLocals == [op |-> "SuspendFor", duration |-> Hour]

CtlSuspendFor(t) ==
    /\ pc[t] = "idle" /\ ~fatal
    /\ t = Orchestrator
    /\ logGhost.nCtl < MaxCtl
    /\ Call(t, "sf_lock", "idle")
    /\ loc' = [loc EXCEPT ![t] = CtlLocals]
    /\ logGhost' = [logGhost EXCEPT !.nCtl = @ + 1]
    /\ UNCHANGED <<fatal, now, nonLogV>>
    /\ UNCHANGED <<rlEnabled, suspendUntil, pendingWrites, currentFile, files, rlDone,
                   enabledMutex, currentFileMutex, disk>>

\* ------------------------------------------------------------ ApitallyClient
maxQueueTime == Hour
maxQueueSize == 400
\* a loop that goes on for one more file
MaxUploadsPlusOne == 10 + 1
\* the bound of the upload loop of sendLogData
MaxUploadsPerCall == 10
\* runs of sync() the background goroutine makes in one behaviour
MaxSyncs == 2
\* calls of sendHubRequest made in one behaviour
MaxRequests == 4
\* calls of SetStartupData after the client was started, in a run
MaxSets == 1

Background == "bg"
StartupSender == "st"
SyncSender == "sy"
LogSender == "lg"
ShutdownCaller == "sd"

\* what the hub answers: an HTTP status, or 0 when httpClient.Do returns an error
TransportError == 0
HubCodes == {TransportError, 200, 402, 404, 422, 500}

\* the HubRequestStatus sendHubRequest returns
HubStatus(code) ==
    IF code = TransportError THEN "RetryableError"
    ELSE IF code >= 400
    THEN CASE code = 404 -> "InvalidClientId"
           [] code = 422 -> "ValidationError"
           [] code = 402 -> "PaymentRequired"
           [] OTHER -> "RetryableError"
    ELSE "OK"

\* a client that is switched off by a quota answer as well
DisablesClientOnQuota(code) == code \in {404, 402}
\* the answers on which sendHubRequest switches the client off and stops the cycle
DisablesClient(code) == code = 404

\* payloads created and neither delivered nor dropped yet
Unsettled == (1..(syncGhost.nextId - 1)) \ syncGhost.settled

\* the history after a request of the given kind goes out
Issued(kind, id) ==
    [syncGhost EXCEPT !.nRequests = @ + 1,
                      !.nUploads = IF kind = "log" THEN @ + 1 ELSE @,
                      !.overtaken = IF kind = "sync" THEN @ \cup {p \in Unsettled : p < id}
                                    ELSE @]

\* ---- sendHubRequest
\* c.httpClient.Do returns: the status is mapped; on 404 the client is disabled and
\* stopSync is called before sendHubRequest returns
HubRespond(t, code) ==
    /\ pc[t] = "hub_wait" /\ ~fatal
    /\ loc' = [loc EXCEPT ![t].status = HubStatus(code)]
    /\ IF DisablesClient(code)
       THEN enabled' = FALSE /\ Goto(t, "stop_check") /\ UNCHANGED stack
       ELSE UNCHANGED enabled /\ Return(t)
    /\ syncGhost' = [syncGhost EXCEPT
           !.got404 = @ \/ code = 404,
           !.payUntil = IF code = 402 /\ loc[t].req.kind = "log" THEN now + Hour ELSE @,
           !.paySync = IF code = 402 /\ loc[t].req.kind = "log" THEN syncGhost.nSyncs ELSE @,
           !.accepted = IF HubStatus(code) \in {"OK", "ValidationError"}
                        THEN @ \cup {<<loc[t].req.kind, loc[t].req.id>>} ELSE @,
           !.acked = IF HubStatus(code) = "OK" /\ loc[t].req.kind = "startup"
                     THEN @ \cup {loc[t].req.id} ELSE @]
    /\ UNCHANGED <<fatal, now, aggV, aggGhost, logV>>
    /\ UNCHANGED <<syncStopped, done, syncDataChan, startupData, startupDataSent, mutex>>

\* ---- stopSync
\* if !c.syncStopped
StopSyncCheck(t) ==
    /\ pc[t] = "stop_check" /\ ~fatal
    /\ IF syncStopped THEN Return(t) ELSE Goto(t, "stop_close") /\ UNCHANGED stack
    /\ UNCHANGED <<loc, fatal, now, aggV, aggGhost, logV, cliV>>

\* close(c.done), which panics on a closed channel; c.syncStopped = true
StopSyncClose(t) ==
    /\ pc[t] = "stop_close" /\ ~fatal
    /\ IF done = "closed"
       THEN fatal' = TRUE /\ UNCHANGED <<pc, stack, done, syncStopped>>
       ELSE /\ done' = "closed" /\ syncStopped' = TRUE
            /\ Return(t)
            /\ UNCHANGED fatal
    /\ UNCHANGED <<loc, now, aggV, aggGhost, logV>>
    /\ UNCHANGED <<enabled, syncDataChan, startupData, startupDataSent, mutex, syncGhost>>

\* ---- SetStartupData
\* lock; a new StartupPayload with a message UUID of its own (the number of the
\* call stands for it); startupDataSent = false; unlock
SetStartupData ==
    /\ ~fatal
    /\ mutex = None
    /\ syncGhost.nSets < MaxSets
    /\ startupData' = TRUE
    /\ startupDataSent' = FALSE
    /\ syncGhost' = [syncGhost EXCEPT !.nSets = @ + 1]
    /\ UNCHANGED <<pc, stack, loc, fatal, now, aggV, aggGhost, logV>>
    /\ UNCHANGED <<enabled, syncStopped, done, syncDataChan, mutex>>

\* ---- sendStartupData
\* lock; return if there is nothing to send, else marshal and send
SendStartupDataBegin(t) ==
    /\ pc[t] = "su_begin" /\ ~fatal
    /\ mutex = None
    /\ IF startupDataSent \/ ~startupData
       THEN /\ Return(t)
            /\ UNCHANGED <<loc, mutex, syncGhost>>
       ELSE /\ syncGhost.nRequests < MaxRequests
            /\ mutex' = t
            /\ Call(t, "hub_wait", "su_status")
            /\ loc' = [loc EXCEPT ![t] = [op |-> "sendStartupData", status |-> None,
                                          req |-> [kind |-> "startup",
                                                   id |-> syncGhost.nSets]]]
            /\ syncGhost' = Issued("startup", syncGhost.nSets)
    /\ UNCHANGED <<fatal, now, aggV, aggGhost, logV>>
    /\ UNCHANGED <<enabled, syncStopped, done, syncDataChan, startupData, startupDataSent>>

\* a client that takes no answer for an acknowledgement
AcknowledgedNever(status) == FALSE
\* status == HubRequestStatusOK
Acknowledged(status) == status = "OK"

\* if status == HubRequestStatusOK { ... }; the deferred unlock
SendStartupDataStatus(t) ==
    /\ pc[t] = "su_status" /\ ~fatal
    /\ IF Acknowledged(loc[t].status)
       THEN startupDataSent' = TRUE /\ startupData' = FALSE
       ELSE UNCHANGED <<startupDataSent, startupData>>
    /\ mutex' = None
    /\ Return(t)
    /\ loc' = [loc EXCEPT ![t] = NoLocals]
    /\ UNCHANGED <<fatal, now, aggV, aggGhost, logV>>
    /\ UNCHANGED <<enabled, syncStopped, done, syncDataChan, syncGhost>>

\* ---- sendSyncData
NoPayload == [id |-> 0, ts |-> NoTime]
\* the SyncPayload built from the four drains
NewPayload(l) == [id |-> l.id, ts |-> l.ts, requests |-> l.requests,
                  validationErrors |-> l.validationErrors,
                  serverErrors |-> l.serverErrors, consumers |-> l.consumers]

\* an age test that never drops a payload
NeverTooOld(p) == FALSE
\* time.Since(time.Unix(int64(payload.Timestamp), 0)) > maxQueueTime
TooOld(p) == now - p.ts > maxQueueTime

\* the SyncPayload literal: the timestamp and a new message UUID, then the four
\* drains in the order of the fields
SendSyncDataBegin(t) ==
    /\ pc[t] = "ss_begin" /\ ~fatal
    /\ loc' = [loc EXCEPT ![t] =
                 [op |-> "sendSyncData", ts |-> now, id |-> syncGhost.nextId,
                  requests |-> <<>>, validationErrors |-> <<>>, serverErrors |-> <<>>,
                  consumers |-> <<>>, i |-> 0, payload |-> NoPayload, retried |-> FALSE,
                  status |-> None, req |-> [kind |-> "sync", id |-> 0]]]
    /\ pc' = [pc EXCEPT ![t] = "gr_req"]
    /\ stack' = [stack EXCEPT ![t] = <<"gr_val", "gr_srv", "gr_con", "ss_enqueue">> \o @]
    /\ syncGhost' = [syncGhost EXCEPT !.nextId = @ + 1]
    /\ UNCHANGED <<fatal, now, aggV, aggGhost, logV>>
    /\ UNCHANGED <<enabled, syncStopped, done, syncDataChan, startupData, startupDataSent, mutex>>

\* select { case c.syncDataChan <- newPayload: default: return error }
SendSyncDataEnqueue(t) ==
    /\ pc[t] = "ss_enqueue" /\ ~fatal
    /\ IF Len(syncDataChan) < maxQueueSize
       THEN /\ syncDataChan' = Append(syncDataChan, NewPayload(loc[t]))
            /\ Goto(t, "ss_recv")
            /\ UNCHANGED <<stack, syncGhost>>
       ELSE /\ syncGhost' = [syncGhost EXCEPT !.settled = @ \cup {loc[t].id}]
            /\ Return(t)
            /\ UNCHANGED syncDataChan
    /\ UNCHANGED <<loc, fatal, now, aggV, aggGhost, logV>>
    /\ UNCHANGED <<enabled, syncStopped, done, startupData, startupDataSent, mutex>>

\* the head of the loop: select { case payload = <-c.syncDataChan: default: return nil },
\* then the age test, whose continue runs i++ (of i only i > 0 is ever read)
SendSyncDataReceive(t) ==
    /\ pc[t] = "ss_recv" /\ ~fatal
    /\ IF syncDataChan = <<>>
       THEN /\ Return(t)
            /\ loc' = [loc EXCEPT ![t] = NoLocals]
            /\ UNCHANGED <<syncDataChan, syncGhost>>
       ELSE /\ syncDataChan' = Tail(syncDataChan)
            /\ UNCHANGED stack
            /\ IF TooOld(Head(syncDataChan))
               THEN /\ loc' = [loc EXCEPT ![t].i = 1]
                    /\ syncGhost' = [syncGhost EXCEPT !.settled = @ \cup {Head(syncDataChan).id}]
                    /\ UNCHANGED pc
               ELSE /\ loc' = [loc EXCEPT ![t].payload = Head(syncDataChan)]
                    /\ Goto(t, "ss_send")
                    /\ UNCHANGED syncGhost
    /\ UNCHANGED <<fatal, now, aggV, aggGhost, logV>>
    /\ UNCHANGED <<enabled, syncStopped, done, startupData, startupDataSent, mutex>>

\* randomDelay if i > 0, json.Marshal, http.NewRequest, c.sendHubRequest(req)
SendSyncDataSend(t) ==
    /\ pc[t] = "ss_send" /\ ~fatal
    /\ syncGhost.nRequests < MaxRequests
    /\ Call(t, "hub_wait", "ss_status")
    /\ loc' = [loc EXCEPT ![t].req = [kind |-> "sync", id |-> loc[t].payload.id]]
    /\ syncGhost' = Issued("sync", loc[t].payload.id)
    /\ UNCHANGED <<fatal, now, aggV, aggGhost, logV>>
    /\ UNCHANGED <<enabled, syncStopped, done, syncDataChan, startupData, startupDataSent, mutex>>

\* a requeue that stamps the payload with the time of the retry
SendSyncDataStatusRestamped(t) ==
    /\ pc[t] = "ss_status" /\ ~fatal
    /\ IF loc[t].status = "RetryableError" /\ Len(syncDataChan) < maxQueueSize
       THEN /\ syncDataChan' = Append(syncDataChan, [loc[t].payload EXCEPT !.ts = now])
            /\ UNCHANGED syncGhost
       ELSE /\ syncGhost' = [syncGhost EXCEPT !.settled = @ \cup {loc[t].payload.id}]
            /\ UNCHANGED syncDataChan
    /\ loc' = [loc EXCEPT ![t].i = 1,
                          ![t].retried = @ \/ loc[t].status = "RetryableError"]
    /\ Goto(t, "ss_recv")
    /\ UNCHANGED <<stack, fatal, now, aggV, aggGhost, logV>>
    /\ UNCHANGED <<enabled, syncStopped, done, startupData, startupDataSent, mutex>>

\* if status == HubRequestStatusRetryableError { requeue unless the channel is full };
\* then i++ and the next iteration
SendSyncDataStatus(t) ==
    /\ pc[t] = "ss_status" /\ ~fatal
    /\ IF loc[t].status = "RetryableError" /\ Len(syncDataChan) < maxQueueSize
       THEN /\ syncDataChan' = Append(syncDataChan, loc[t].payload)
            /\ UNCHANGED syncGhost
       ELSE /\ syncGhost' = [syncGhost EXCEPT !.settled = @ \cup {loc[t].payload.id}]
            /\ UNCHANGED syncDataChan
    /\ loc' = [loc EXCEPT ![t].i = 1,
                          ![t].retried = @ \/ loc[t].status = "RetryableError"]
    /\ Goto(t, "ss_recv")
    /\ UNCHANGED <<stack, fatal, now, aggV, aggGhost, logV>>
    /\ UNCHANGED <<enabled, syncStopped, done, startupData, startupDataSent, mutex>>

\* ---- sendLogData
\* c.RequestLogger.rotateFile()
SendLogDataBegin(t) ==
    /\ pc[t] = "sl_begin" /\ ~fatal
    /\ loc' = [loc EXCEPT ![t] = [op |-> "sendLogData", i |-> 0, logFile |-> NoFile,
                                  duration |-> Hour, status |-> None,
                                  req |-> [kind |-> "log", id |-> 0]]]
    /\ Call(t, "rf_lock", "sl_get")
    /\ UNCHANGED <<fatal, now, aggV, aggGhost, logV, cliV>>

\* a GetFile that returns the head of the queue and leaves it there
SendLogDataPeekFile(t) ==
    /\ pc[t] = "sl_get" /\ ~fatal
    /\ IF loc[t].i < MaxUploadsPerCall /\ files # <<>>
       THEN /\ loc' = [loc EXCEPT ![t].logFile = Head(files)]
            /\ Goto(t, "sl_send")
            /\ UNCHANGED stack
       ELSE /\ Return(t)
            /\ loc' = [loc EXCEPT ![t] = NoLocals]
    /\ UNCHANGED <<fatal, now, aggV, aggGhost, cliV, logV>>

\* i < 10; GetFile: select { case file := <-rl.files: default: nil }; break on nil
SendLogDataGetFile(t) ==
    /\ pc[t] = "sl_get" /\ ~fatal
    /\ IF loc[t].i < MaxUploadsPerCall /\ files # <<>>
       THEN /\ files' = Tail(files)
            /\ loc' = [loc EXCEPT ![t].logFile = Head(files)]
            /\ Goto(t, "sl_send")
            /\ UNCHANGED stack
       ELSE /\ Return(t)
            /\ loc' = [loc EXCEPT ![t] = NoLocals]
            /\ UNCHANGED files
    /\ UNCHANGED <<fatal, now, aggV, aggGhost, cliV>>
    /\ UNCHANGED <<rlEnabled, suspendUntil, pendingWrites, currentFile, rlDone, enabledMutex,
                   currentFileMutex, disk, logGhost>>

\* randomDelay if i > 0; GetReader, which fails on a file that is gone;
\* http.NewRequest, c.sendHubRequest(req)
SendLogDataSend(t) ==
    /\ pc[t] = "sl_send" /\ ~fatal
    /\ IF disk[loc[t].logFile].deleted
       THEN /\ Return(t)
            /\ loc' = [loc EXCEPT ![t] = NoLocals]
            /\ UNCHANGED syncGhost
       ELSE /\ syncGhost.nRequests < MaxRequests
            /\ Call(t, "hub_wait", "sl_status")
            /\ loc' = [loc EXCEPT ![t].req = [kind |-> "log", id |-> loc[t].logFile]]
            /\ syncGhost' = Issued("log", loc[t].logFile)
    /\ UNCHANGED <<fatal, now, aggV, aggGhost, logV>>
    /\ UNCHANGED <<enabled, syncStopped, done, syncDataChan, startupData, startupDataSent, mutex>>

\* retryable: RetryFileLater and break; payment required: Delete, SuspendFor(time.Hour)
\* and break; otherwise Delete, i++ and the next iteration
SendLogDataStatus(t) ==
    /\ pc[t] = "sl_status" /\ ~fatal
    /\ LET f == loc[t].logFile IN
       CASE loc[t].status = "RetryableError" ->
               /\ files' = RetriedFiles(f)
               /\ disk' = RetriedDisk(f)
               /\ Return(t)
               /\ loc' = [loc EXCEPT ![t] = NoLocals]
         [] loc[t].status = "PaymentRequired" ->
               /\ disk' = [disk EXCEPT ![f] = DeleteFile(@)]
               /\ Goto(t, "sf_lock")
               /\ UNCHANGED <<stack, files, loc>>
         [] OTHER ->
               /\ disk' = [disk EXCEPT ![f] = DeleteFile(@)]
               /\ loc' = [loc EXCEPT ![t].i = @ + 1]
               /\ Goto(t, "sl_get")
               /\ UNCHANGED <<stack, files>>
    /\ UNCHANGED <<fatal, now, aggV, aggGhost, cliV>>
    /\ UNCHANGED <<rlEnabled, suspendUntil, pendingWrites, currentFile, rlDone, enabledMutex,
                   currentFileMutex, logGhost>>

\* ---- Shutdown
\* c.enabled = false; then stopSync, sendSyncData, sendLogData, RequestLogger.Close
\* one after the other (CloseIdleConnections changes nothing here)
Shutdown(t) ==
    /\ pc[t] = "idle" /\ ~fatal
    /\ t = ShutdownCaller
    /\ enabled' = FALSE
    /\ pc' = [pc EXCEPT ![t] = "stop_check"]
    /\ stack' = [stack EXCEPT ![t] = <<"ss_begin", "sl_begin", "close", "done">>]
    /\ UNCHANGED <<loc, fatal, now, aggV, aggGhost, logV>>
    /\ UNCHANGED <<syncStopped, done, syncDataChan, startupData, startupDataSent, mutex,
                   syncGhost>>

\* ---- StartSync's goroutine
\* sync(): the three senders start, each in a goroutine of its own
Sync(t) ==
    /\ pc[t] = "bg_sync" /\ ~fatal
    /\ pc' = [pc EXCEPT ![t] = "bg_wait", ![StartupSender] = "su_begin",
                        ![SyncSender] = "ss_begin", ![LogSender] = "sl_begin"]
    /\ stack' = [stack EXCEPT ![StartupSender] = <<"done">>, ![SyncSender] = <<"done">>,
                              ![LogSender] = <<"done">>]
    /\ syncGhost' = [syncGhost EXCEPT !.nSyncs = @ + 1]
    /\ UNCHANGED <<loc, fatal, now, aggV, aggGhost, logV>>
    /\ UNCHANGED <<enabled, syncStopped, done, syncDataChan, startupData, startupDataSent, mutex>>

\* wg.Wait() returns when the three have returned
SyncWait(t) ==
    /\ pc[t] = "bg_wait" /\ ~fatal
    /\ \A s \in {StartupSender, SyncSender, LogSender} : pc[s] = "done"
    /\ pc' = [pc EXCEPT ![t] = "bg_select", ![StartupSender] = "off",
                        ![SyncSender] = "off", ![LogSender] = "off"]
    /\ loc' = [loc EXCEPT ![StartupSender] = NoLocals, ![SyncSender] = NoLocals,
                          ![LogSender] = NoLocals]
    /\ UNCHANGED <<stack, fatal, now, aggV, aggGhost, logV, cliV>>

\* select: case <-ticker.C
BackgroundTicker(t) ==
    /\ pc[t] = "bg_select" /\ ~fatal
    /\ syncGhost.nSyncs < MaxSyncs
    /\ Goto(t, "bg_sync")
    /\ UNCHANGED <<stack, loc, fatal, now, aggV, aggGhost, logV, cliV>>

\* select: case <-c.done
BackgroundDone(t) ==
    /\ pc[t] = "bg_select" /\ ~fatal
    /\ done = "closed"
    /\ Goto(t, "exit")
    /\ UNCHANGED <<stack, loc, fatal, now, aggV, aggGhost, logV, cliV>>

\* ------------------------------------------------------------ direct drain calls
DrainLocals(op) == [op |-> op, requests |-> <<>>, validationErrors |-> <<>>,
                    serverErrors |-> <<>>, consumers |-> <<>>]
DrainEntries == {"gr_req", "gr_val", "gr_srv", "gr_con"}

\* a goroutine calls one GetAndReset* directly
DrainCall(t, entry) ==
    /\ pc[t] = "idle" /\ ~fatal
    /\ t \in Handlers
    /\ aggGhost.nDrains < MaxDrains
    /\ pc' = [pc EXCEPT ![t] = entry]
    /\ stack' = [stack EXCEPT ![t] = <<"idle">>]
    /\ loc' = [loc EXCEPT ![t] = DrainLocals(entry)]
    /\ aggGhost' = [aggGhost EXCEPT !.nDrains = @ + 1]
    /\ UNCHANGED <<fatal, aggV>>
    /\ UNCHANGED nonAggV

\* ------------------------------------------------------------ specifications
NoSyncHistory == [nSyncs |-> 0, nRequests |-> 0, nUploads |-> 0, nextId |-> 1,
                  got404 |-> FALSE, payUntil |-> NoTime, paySync |-> 0,
                  settled |-> {}, overtaken |-> {}, accepted |-> {}, nSets |-> 0,
                  acked |-> {}]
Zero4 == [req |-> 0, srv |-> 0, val |-> 0, con |-> 0]
\* the logger of a client built without request logging, never used
InitLogUnused ==
    /\ now = 0
    /\ rlEnabled = FALSE /\ suspendUntil = NoTime /\ pendingWrites = <<>>
    /\ currentFile = NoFile /\ files = <<>> /\ rlDone = "nil"
    /\ enabledMutex = None /\ currentFileMutex = None /\ disk = <<>>
    /\ logGhost = [nLogs |-> 0, stamp |-> 0, nCtl |-> 0, suspended |-> FALSE,
                   resumed |-> FALSE]

\* the client's own fields right after NewApitallyClient, never used
InitClientUnused ==
    /\ enabled = TRUE /\ syncStopped = FALSE /\ done = "open"
    /\ syncDataChan = <<>> /\ startupData = FALSE /\ startupDataSent = FALSE
    /\ mutex = None
    /\ syncGhost = NoSyncHistory

NoErrors == [srv |-> <<>>, val |-> <<>>]
NoErrorDrains == [srv |-> [items |-> <<>>, log |-> <<>>],
                  val |-> [items |-> <<>>, log |-> <<>>]]
InitAggState ==
    /\ fatal = FALSE
    /\ rc = NewRequestCounter
    /\ sec = NewErrorCounter
    /\ vec = NewErrorCounter
    /\ cr = NewConsumerRegistry
    /\ aggGhost = [nAdds |-> 0, nDrains |-> 0, addsDone |-> Zero4, drained |-> Zero4,
                   reqLog |-> <<>>, lastRequests |-> [items |-> <<>>, log |-> <<>>],
                   errLog |-> NoErrors, lastErrors |-> NoErrorDrains,
                   conCalls |-> 0, lastConsumer |-> NilConsumer,
                   fresh |-> [req |-> FALSE, srv |-> FALSE, val |-> FALSE, con |-> FALSE]]

AggStep(t) ==
    \/ \E in \in ReqInputs : AddRequestBegin(t, in)
    \/ AddRequestLoad(t)
    \/ AddRequestStore(t)
    \/ \E e \in ErrInputs : AddServerError(t, e)
    \/ \E v \in ValInputs : AddValidationError(t, v)
    \/ \E c \in ConsumerInputs : AddOrUpdateConsumer(t, c)
    \/ \E entry \in DrainEntries : DrainCall(t, entry)
    \/ GetAndResetRequestsRead(t)
    \/ GetAndResetRequestsReset(t)
    \/ GetAndResetServerErrors(t)
    \/ GetAndResetValidationErrors(t)
    \/ GetAndResetUpdatedConsumers(t)

\* the aggregators under concurrent callers
InitAgg ==
    /\ pc = [t \in Handlers |-> "idle"]
    /\ stack = [t \in Handlers |-> <<>>]
    /\ loc = [t \in Handlers |-> NoLocals]
    /\ InitAggState
    /\ InitLogUnused
    /\ InitClientUnused
NextAgg == (\E t \in Handlers : AggStep(t)) \/ MapFault
SpecAgg == InitAgg /\ [][NextAgg]_vars

\* the aggregators under one caller
InitSeq ==
    /\ pc = [t \in Handlers |-> IF t = "h1" THEN "idle" ELSE "off"]
    /\ stack = [t \in Handlers |-> <<>>]
    /\ loc = [t \in Handlers |-> NoLocals]
    /\ InitAggState
    /\ InitLogUnused
    /\ InitClientUnused
NextSeq == \E t \in Handlers : AggStep(t)
SpecSeq == InitSeq /\ [][NextSeq]_vars

\* The logger after NewRequestLogger with logging enabled.  The maintenance
\* goroutine runs if StartMaintenance was called.  The pending queue is empty, or
\* holds the records of earlier LogRequest calls that no maintenance tick has
\* written yet.
LogThreads == Handlers \cup {Maintenance, Orchestrator}
Prefilled(n) == [i \in 1..n |-> Rec(300, i)]
InitLogWith(fills, maints, orch) ==
    /\ \E m \in maints :
         /\ pc = [t \in LogThreads |-> IF t = Maintenance THEN m
                                       ELSE IF t = Orchestrator THEN orch ELSE "idle"]
         /\ rlDone = IF m = "off" THEN "nil" ELSE "open"
    /\ stack = [t \in LogThreads |-> <<>>]
    /\ loc = [t \in LogThreads |-> NoLocals]
    /\ InitAggState
    /\ now = 0
    /\ rlEnabled = TRUE /\ suspendUntil = NoTime
    /\ \E n \in fills :
         /\ pendingWrites = Prefilled(n)
         /\ logGhost = [nLogs |-> 0, stamp |-> n, nCtl |-> 0, suspended |-> FALSE,
                   resumed |-> FALSE]
    /\ currentFile = NoFile /\ files = <<>>
    /\ enabledMutex = None /\ currentFileMutex = None /\ disk = <<>>
    /\ InitClientUnused

\* Clear and SuspendFor
LoggerStep(t) ==
    \/ ClearPendingCheck(t)
    \/ ClearPendingRecv(t)
    \/ ClearFilesCheck(t)
    \/ ClearFilesRecv(t)
    \/ SuspendForLock(t)
    \/ SuspendForUnlock(t)

\* LogRequest up to its first attempt to enqueue
LogRequestStep(t) ==
    \/ \E in \in LogInputs : LogRequestBegin(t, in)
    \/ LogRequestIsEnabled(t)
    \/ LogRequestIsSuspended(t)
    \/ LogRequestSend(t)

\* LogRequest after it found the queue full
OverflowStep(t) ==
    \/ LogRequestDrop(t)
    \/ LogRequestResend(t)

\* the maintenance goroutine with the calls it makes
MaintainStep(t) ==
    \/ MaintainTick(t)
    \/ WriteToFileLock(t)
    \/ WriteToFileFirst(t)
    \/ WriteToFileLoopCheck(t)
    \/ WriteToFileLoopRecv(t)
    \/ MaintainCheckSize(t)
    \/ RotateFileLock(t)
    \/ RotateFileBody(t)
    \/ MaintainPrune(t)
    \/ MaintainResume(t)

\* the pending queue under concurrent LogRequest callers, with or without the
\* maintenance goroutine
InitFill == {0, maxPendingWrites}
InitQueue == InitLogWith(InitFill, {"mt_idle", "off"}, "off")
NextQueue == \E t \in LogThreads : LogRequestStep(t) \/ OverflowStep(t) \/ MaintainStep(t)
SpecQueue == InitQueue /\ [][NextQueue]_vars

\* the logger under concurrent LogRequest callers, the maintenance goroutine and a
\* goroutine calling SuspendFor, as time passes; the queue starts empty and never
\* fills up
InitLog == InitLogWith({0}, {"mt_idle"}, "idle")
NextLog ==
    \/ Tick
    \/ \E t \in LogThreads :
         \/ LogRequestStep(t)
         \/ MaintainStep(t)
         \/ LoggerStep(t)
         \/ CtlSuspendFor(t)
SpecLog == InitLog /\ [][NextLog]_vars

\* LogRequest callers on a logger that was built enabled or disabled and is, or
\* is not, inside a suspension window that the passing time brings to its end;
\* the maintenance goroutine is not running
InitFilter ==
    /\ pc = [t \in LogThreads |-> IF t \in Handlers THEN "idle" ELSE "off"]
    /\ stack = [t \in LogThreads |-> <<>>]
    /\ loc = [t \in LogThreads |-> NoLocals]
    /\ InitAggState
    /\ now = 0
    /\ rlEnabled \in BOOLEAN
    /\ suspendUntil \in {NoTime, Hour}
    /\ rlDone = "nil"
    /\ pendingWrites = <<>>
    /\ logGhost = [nLogs |-> 0, stamp |-> 0, nCtl |-> 0, suspended |-> suspendUntil # NoTime,
                   resumed |-> FALSE]
    /\ currentFile = NoFile /\ files = <<>>
    /\ enabledMutex = None /\ currentFileMutex = None /\ disk = <<>>
    /\ InitClientUnused
NextFilter == Tick \/ \E t \in Handlers : LogRequestStep(t)
SpecFilter == InitFilter /\ [][NextFilter]_vars

\* The client after StartSync, with traffic already handled: one request and one
\* consumer are counted, one record is waiting in the pending queue and two batch
\* files are complete.  The background goroutine is about to run the initial sync; Shutdown
\* can be called at any time.  The logger's maintenance goroutine is not scheduled.
SyncThreads == {Background, StartupSender, SyncSender, LogSender, ShutdownCaller}
FirstRequest == CHOOSE in \in ReqInputs : in.rt10 = 457
FirstConsumer == Consumer("c1", "Alice", "")
CompleteFile == CloseFile(WriteLine(NewTempGzipFile, Rec(300, 0)))
\* `queued` payloads wait in syncDataChan, put there by sendSyncData calls that
\* have not come to take one out yet
QueuedPayload(i) == [id |-> i, ts |-> 0, requests |-> <<>>, validationErrors |-> <<>>,
                     serverErrors |-> <<>>, consumers |-> <<>>]
InitSyncQueued(caller, queued) ==
    /\ pc = [t \in SyncThreads |-> IF t = Background THEN "bg_sync"
                                   ELSE IF t = ShutdownCaller THEN caller ELSE "off"]
    /\ stack = [t \in SyncThreads |-> <<>>]
    /\ loc = [t \in SyncThreads |-> NoLocals]
    /\ fatal = FALSE
    /\ rc = RequestAdded(NewRequestCounter, FirstRequest)
    /\ sec = NewErrorCounter
    /\ vec = NewErrorCounter
    /\ cr = ConsumerAdded(NewConsumerRegistry, FirstConsumer)
    /\ aggGhost = [nAdds |-> 2, nDrains |-> 0,
                   addsDone |-> [req |-> 1, srv |-> 0, val |-> 0, con |-> 1],
                   drained |-> Zero4, reqLog |-> <<FirstRequest>>,
                   lastRequests |-> [items |-> <<>>, log |-> <<>>],
                   errLog |-> NoErrors, lastErrors |-> NoErrorDrains,
                   conCalls |-> 0, lastConsumer |-> NilConsumer,
                   fresh |-> [req |-> FALSE, srv |-> FALSE, val |-> FALSE, con |-> FALSE]]
    /\ now = 0
    /\ rlEnabled = TRUE /\ suspendUntil = NoTime /\ rlDone = "open"
    /\ pendingWrites = Prefilled(1)
    /\ currentFile = NoFile
    /\ files = <<1, 2>>
    /\ disk = <<CompleteFile, CompleteFile>>
    /\ enabledMutex = None /\ currentFileMutex = None
    /\ logGhost = [nLogs |-> 0, stamp |-> 1, nCtl |-> 0, suspended |-> FALSE,
                   resumed |-> FALSE]
    /\ enabled = TRUE /\ syncStopped = FALSE /\ done = "open"
    /\ syncDataChan = [i \in 1..queued |-> QueuedPayload(i)]
    /\ startupData = TRUE /\ startupDataSent = FALSE
    /\ mutex = None
    /\ syncGhost = [NoSyncHistory EXCEPT !.nextId = queued + 1]
InitSyncWith(caller) == InitSyncQueued(caller, 0)

\* sendHubRequest's return, with stopSync
HubStep(t) ==
    \/ \E code \in HubCodes : HubRespond(t, code)
    \/ StopSyncCheck(t)
    \/ StopSyncClose(t)

SendStartupDataStep(t) ==
    \/ SendStartupDataBegin(t)
    \/ SendStartupDataStatus(t)

SendSyncDataStep(t) ==
    \/ SendSyncDataBegin(t)
    \/ GetAndResetRequestsRead(t)
    \/ GetAndResetRequestsReset(t)
    \/ GetAndResetValidationErrors(t)
    \/ GetAndResetServerErrors(t)
    \/ GetAndResetUpdatedConsumers(t)
    \/ SendSyncDataEnqueue(t)
    \/ SendSyncDataReceive(t)
    \/ SendSyncDataSend(t)
    \/ SendSyncDataStatus(t)

SendLogDataStep(t) ==
    \/ SendLogDataBegin(t)
    \/ RotateFileLock(t)
    \/ RotateFileBody(t)
    \/ SendLogDataGetFile(t)
    \/ SendLogDataSend(t)
    \/ SendLogDataStatus(t)
    \/ LoggerStep(t)

ShutdownStep(t) ==
    \/ Shutdown(t)
    \/ CloseIsEnabled(t)
    \/ CloseLock(t)
    \/ CloseUnlock(t)
    \/ CloseReturn(t)

\* Each specification below lets a set of goroutines run; the others are started
\* but not scheduled.

\* the initial sync's sendSyncData, and Shutdown called before, while or after it runs
InitSync == InitSyncWith("idle")
NextSync ==
    \E t \in {Background, SyncSender, ShutdownCaller} :
         \/ Sync(t)
         \/ HubStep(t)
         \/ SendSyncDataStep(t)
         \/ SendLogDataStep(t)
         \/ ShutdownStep(t)
SpecSync == InitSync /\ [][NextSync]_vars

\* the initial sync's sendLogData, and Shutdown called before, while or after it runs
NextUpload ==
    \E t \in {Background, LogSender, ShutdownCaller} :
         \/ Sync(t)
         \/ HubStep(t)
         \/ SendSyncDataStep(t)
         \/ SendLogDataStep(t)
         \/ ShutdownStep(t)
SpecUpload == InitSync /\ [][NextUpload]_vars

\* the background cycle, sync after sync, without Shutdown; the clock advances
\* while the background goroutine waits for its ticker
InitCycle == InitSyncWith("off")
NextCycle ==
    \/ (pc[Background] = "bg_select" /\ Tick)
    \/ \E t \in SyncThreads :
         \/ Sync(t)
         \/ SyncWait(t)
         \/ BackgroundTicker(t)
         \/ BackgroundDone(t)
         \/ HubStep(t)
         \/ SendStartupDataStep(t)
         \/ SendSyncDataStep(t)
         \/ SendLogDataStep(t)
SpecCycle == InitCycle /\ [][NextCycle]_vars

\* The background cycle next to an application that calls SetStartupData again
\* at any moment, also while a sendStartupData call is under way.
InitStartup == InitSyncWith("off")
NextStartup ==
    \/ SetStartupData
    \/ \E t \in SyncThreads :
         \/ Sync(t)
         \/ SyncWait(t)
         \/ BackgroundTicker(t)
         \/ BackgroundDone(t)
         \/ HubStep(t)
         \/ SendStartupDataStep(t)
         \/ SendSyncDataStep(t)
         \/ SendLogDataStep(t)
SpecStartup == InitStartup /\ [][NextStartup]_vars

\* the background cycle and a Shutdown that is called while the background
\* goroutine waits in its select, after the initial sync
InitStop == InitSyncWith("idle")
NextStop ==
    \/ (pc[Background] = "bg_select" /\ Shutdown(ShutdownCaller))
    \/ \E t \in SyncThreads :
         \/ Sync(t)
         \/ SyncWait(t)
         \/ BackgroundTicker(t)
         \/ BackgroundDone(t)
         \/ HubStep(t)
         \/ SendStartupDataStep(t)
         \/ SendSyncDataStep(t)
         \/ SendLogDataStep(t)
         \/ CloseIsEnabled(t)
         \/ CloseLock(t)
         \/ CloseUnlock(t)
         \/ CloseReturn(t)
SpecStop == InitStop /\ [][NextStop]_vars

\* One sendLogData call of a sync and the logger's maintenance goroutine.  The
\* completed-file queue holds one file or is full, and two records are pending, the
\* second large enough to make the maintenance goroutine rotate the batch file.
RetryThreads == {LogSender, Maintenance}
InitQueued == {1, maxFiles}
InitRetry ==
    /\ pc = [t \in RetryThreads |-> IF t = LogSender THEN "sl_begin" ELSE "mt_idle"]
    /\ stack = [t \in RetryThreads |-> IF t = LogSender THEN <<"done">> ELSE <<>>]
    /\ loc = [t \in RetryThreads |-> NoLocals]
    /\ InitAggState
    /\ now = 0
    /\ rlEnabled = TRUE /\ suspendUntil = NoTime /\ rlDone = "open"
    /\ pendingWrites = <<Rec(300, 1), Rec(maxFileSize, 2)>>
    /\ currentFile = NoFile
    /\ \E n \in InitQueued : /\ files = [i \in 1..n |-> i]
                             /\ disk = [i \in 1..n |-> CompleteFile]
    /\ enabledMutex = None /\ currentFileMutex = None
    /\ logGhost = [nLogs |-> 2, stamp |-> 2, nCtl |-> 0, suspended |-> FALSE,
                   resumed |-> FALSE]
    /\ enabled = TRUE /\ syncStopped = FALSE /\ done = "open"
    /\ syncDataChan = <<>> /\ startupData = FALSE /\ startupDataSent = TRUE
    /\ mutex = None
    /\ syncGhost = [NoSyncHistory EXCEPT !.nSyncs = 1]
NextRetry ==
    \E t \in RetryThreads :
         \/ HubStep(t)
         \/ SendLogDataStep(t)
         \/ MaintainStep(t)
         \/ RotateFileFull(t)
         \/ RotateFileResend(t)
SpecRetry == InitRetry /\ [][NextRetry]_vars

\* One sendLogData call by itself, with every answer of the hub: a call that begins,
\* with one file queued or more, and a call that has uploaded and deleted
\* UploadedBefore files and is back at the head of its loop, with more files queued
\* than it has iterations left.  The history of requests is kept from here on.
UploadedBefore == MaxUploadsPerCall - (MaxRequests - 1)
InitBatch ==
    /\ \E uploaded \in {0, UploadedBefore} : \E queued \in {1, MaxRequests + 1} :
         /\ pc = [t \in {LogSender} |-> IF uploaded = 0 THEN "sl_begin" ELSE "sl_get"]
         /\ loc = [t \in {LogSender} |->
                     IF uploaded = 0 THEN NoLocals
                     ELSE [op |-> "sendLogData", i |-> uploaded, logFile |-> uploaded,
                           duration |-> Hour, status |-> "OK",
                           req |-> [kind |-> "log", id |-> uploaded]]]
         /\ files = [i \in 1..queued |-> uploaded + i]
         /\ disk = [i \in 1..(uploaded + queued) |->
                      IF i <= uploaded THEN DeleteFile(CompleteFile) ELSE CompleteFile]
    /\ stack = [t \in {LogSender} |-> <<"done">>]
    /\ InitAggState
    /\ now = 0
    /\ rlEnabled = TRUE /\ suspendUntil = NoTime /\ rlDone = "open"
    /\ pendingWrites = <<Rec(300, 1)>>
    /\ currentFile = NoFile
    /\ enabledMutex = None /\ currentFileMutex = None
    /\ logGhost = [nLogs |-> 1, stamp |-> 1, nCtl |-> 0, suspended |-> FALSE,
                   resumed |-> FALSE]
    /\ enabled = TRUE /\ syncStopped = FALSE /\ done = "open"
    /\ syncDataChan = <<>> /\ startupData = FALSE /\ startupDataSent = TRUE
    /\ mutex = None
    /\ syncGhost = [NoSyncHistory EXCEPT !.nSyncs = 1]
NextBatch == HubStep(LogSender) \/ SendLogDataStep(LogSender)
SpecBatch == InitBatch /\ [][NextBatch]_vars

\* The sendLogData calls of successive syncs, the maintenance goroutine and a
\* LogRequest caller.  The completed-file queue is full, as after a time in which
\* no upload went through, the hub still answers with an error, and every record
\* is large enough to make the maintenance goroutine rotate the batch file it is
\* written to.
RotateThreads == {LogSender, Maintenance, "h1"}
InitRotate ==
    /\ pc = [t \in RotateThreads |-> IF t = LogSender THEN "sl_begin"
                                      ELSE IF t = Maintenance THEN "mt_idle" ELSE "idle"]
    /\ stack = [t \in RotateThreads |-> IF t = LogSender THEN <<"done">> ELSE <<>>]
    /\ loc = [t \in RotateThreads |-> NoLocals]
    /\ InitAggState
    /\ now = 0
    /\ rlEnabled = TRUE /\ suspendUntil = NoTime /\ rlDone = "open"
    /\ pendingWrites = <<Rec(maxFileSize, 1)>>
    /\ currentFile = NoFile
    /\ files = [i \in 1..maxFiles |-> i]
    /\ disk = [i \in 1..maxFiles |-> CompleteFile]
    /\ enabledMutex = None /\ currentFileMutex = None
    /\ logGhost = [nLogs |-> 0, stamp |-> 1, nCtl |-> 0, suspended |-> FALSE,
                   resumed |-> FALSE]
    /\ enabled = TRUE /\ syncStopped = FALSE /\ done = "open"
    /\ syncDataChan = <<>> /\ startupData = FALSE /\ startupDataSent = TRUE
    /\ mutex = None
    /\ syncGhost = [NoSyncHistory EXCEPT !.nSyncs = 1]
\* the next sync starts its sendLogData goroutine once the last one has returned
NextSendLogData(t) ==
    /\ pc[t] = "done" /\ ~fatal
    /\ t = LogSender
    /\ syncGhost.nSyncs < MaxSyncs
    /\ pc' = [pc EXCEPT ![t] = "sl_begin"]
    /\ stack' = [stack EXCEPT ![t] = <<"done">>]
    /\ loc' = [loc EXCEPT ![t] = NoLocals]
    /\ syncGhost' = [syncGhost EXCEPT !.nSyncs = @ + 1]
    /\ UNCHANGED <<fatal, now, aggV, aggGhost, logV>>
    /\ UNCHANGED <<enabled, syncStopped, done, syncDataChan, startupData, startupDataSent, mutex>>
NextRotate ==
    \/ NextSendLogData(LogSender)
    \/ LogRequestBegin("h1", LogInput("http://h/items", "/items", "curl/8.5", FALSE, maxFileSize))
    \/ LogRequestIsEnabled("h1")
    \/ LogRequestIsSuspended("h1")
    \/ LogRequestSend("h1")
    \/ \E code \in {402, 500} : HubRespond(LogSender, code)
    \/ \E t \in RetryThreads :
         \/ SendLogDataStep(t)
         \/ MaintainStep(t)
         \/ RotateFileFull(t)
         \/ RotateFileResend(t)
SpecRotate == InitRotate /\ [][NextRotate]_vars

\* the sendSyncData call of the initial sync and the one Shutdown makes, while
\* time passes: between the requests lie the hub's response times and the random
\* delays
InitAge == InitSyncWith("idle")
NextAge ==
    \/ Tick
    \/ \E t \in {Background, SyncSender, ShutdownCaller} :
         \/ Sync(t)
         \/ Shutdown(t)
         \/ HubStep(t)
         \/ SendSyncDataStep(t)
SpecAge == InitAge /\ [][NextAge]_vars

\* the sendSyncData call of the initial sync and the one Shutdown makes, against a
\* hub that accepts a payload or fails with a server error; time passes while a call
\* waits for the hub's answer
RequeueCodes == {200, 500}
NextRequeue ==
    \/ (\E t \in SyncThreads : pc[t] = "hub_wait") /\ Tick
    \/ \E t \in {Background, SyncSender, ShutdownCaller} :
         \/ Sync(t)
         \/ Shutdown(t)
         \/ StopSyncCheck(t)
         \/ StopSyncClose(t)
         \/ \E code \in RequeueCodes : HubRespond(t, code)
         \/ SendSyncDataStep(t)
SpecRequeue == InitAge /\ [][NextRequeue]_vars

\* One caller adds server errors whose messages have lengths on both sides of
\* maxMsgLength, among them messages that end with the marker themselves, and
\* drains the counter.
MsgLengths == {0, 1, MsgSuffixLen, maxMsgLength - MsgSuffixLen, maxMsgLength - 1,
               maxMsgLength, maxMsgLength + 1, 3000, maxStacktraceLength}
MsgInputs ==
    {[consumer |-> "acme", method |-> "GET", path |-> "/items", type |-> "errors.errorString",
      msg |-> m, stack |-> <<[tok |-> "main.f", len |-> 6]>>] :
        m \in {Str("a", n) : n \in MsgLengths}
              \cup {[text |-> "a", len |-> n, marker |-> TRUE] :
                      n \in {maxMsgLength - MsgSuffixLen, maxMsgLength - MsgSuffixLen + 1}}}
NextTruncate ==
    \/ \E e \in MsgInputs : AddServerError("h1", e)
    \/ DrainCall("h1", "gr_srv")
    \/ GetAndResetServerErrors("h1")
SpecTruncate == InitSeq /\ [][NextTruncate]_vars

\* One goroutine works on one TempGzipFile, as the tests of the type do: it writes
\* lines, closes the file, reads it back or deletes it, in any order.  A write can
\* fail on the disk as well; `written` adds up len(line) + 1 over the calls that
\* returned nil.
MaxWrites == 3
LineLengths == {0, 10, 300}
TestFile == 1
NoCalls == [op |-> "TempGzipFile", calls |-> 0, written |-> 0, last |-> None,
            err |-> FALSE, wasClosed |-> FALSE, sizeBefore |-> 0]

TempFileWriteLine(t, len, diskError) ==
    /\ pc[t] = "idle" /\ ~fatal
    /\ loc[t].calls < MaxWrites
    /\ LET f == disk[TestFile]
           failed == diskError \/ WriteLineErr(f)
       IN /\ disk' = [disk EXCEPT ![TestFile] = IF diskError THEN f
                                                ELSE WriteLine(f, Rec(len, 0))]
          /\ loc' = [loc EXCEPT ![t] = [op |-> "TempGzipFile", calls |-> @.calls + 1,
                                        written |-> IF failed THEN @.written
                                                    ELSE @.written + len + 1,
                                        last |-> "WriteLine", err |-> failed,
                                        wasClosed |-> f.closed, sizeBefore |-> f.size]]
    /\ UNCHANGED <<pc, stack, fatal, now, nonLogV>>
    /\ UNCHANGED <<rlEnabled, suspendUntil, pendingWrites, currentFile, files, rlDone,
                   enabledMutex, currentFileMutex, logGhost>>

\* Close, and GetReader and GetContent, which close the file before they open it
TempFileClose(t) ==
    /\ pc[t] = "idle" /\ ~fatal
    /\ ~disk[TestFile].deleted
    /\ disk' = [disk EXCEPT ![TestFile] = CloseFile(@)]
    /\ loc' = [loc EXCEPT ![t].last = "Close", ![t].err = FALSE]
    /\ UNCHANGED <<pc, stack, fatal, now, nonLogV>>
    /\ UNCHANGED <<rlEnabled, suspendUntil, pendingWrites, currentFile, files, rlDone,
                   enabledMutex, currentFileMutex, logGhost>>

\* Delete: os.Remove fails on a file that is gone
TempFileDelete(t) ==
    /\ pc[t] = "idle" /\ ~fatal
    /\ loc[t].last # "Delete"
    /\ disk' = [disk EXCEPT ![TestFile] = DeleteFile(@)]
    /\ loc' = [loc EXCEPT ![t].last = "Delete", ![t].err = disk[TestFile].deleted]
    /\ UNCHANGED <<pc, stack, fatal, now, nonLogV>>
    /\ UNCHANGED <<rlEnabled, suspendUntil, pendingWrites, currentFile, files, rlDone,
                   enabledMutex, currentFileMutex, logGhost>>

InitTempFile ==
    /\ pc = [t \in {Orchestrator} |-> "idle"]
    /\ stack = [t \in {Orchestrator} |-> <<>>]
    /\ loc = [t \in {Orchestrator} |-> NoCalls]
    /\ InitAggState
    /\ now = 0
    /\ rlEnabled = FALSE /\ suspendUntil = NoTime /\ pendingWrites = <<>>
    /\ currentFile = NoFile /\ files = <<>> /\ rlDone = "nil"
    /\ enabledMutex = None /\ currentFileMutex = None
    /\ disk = <<NewTempGzipFile>>
    /\ logGhost = [nLogs |-> 0, stamp |-> 0, nCtl |-> 0, suspended |-> FALSE,
                   resumed |-> FALSE]
    /\ InitClientUnused
NextTempFile ==
    \/ \E len \in LineLengths : \E diskError \in BOOLEAN :
           TempFileWriteLine(Orchestrator, len, diskError)
    \/ TempFileClose(Orchestrator)
    \/ TempFileDelete(Orchestrator)
SpecTempFile == InitTempFile /\ [][NextTempFile]_vars

\* the sendSyncData call of a sync that finds syncDataChan full, or with room for
\* one more payload
InitFull == \E queued \in {maxQueueSize - 1, maxQueueSize} : InitSyncQueued("off", queued)
NextFull ==
    \E t \in {Background, SyncSender} :
         \/ Sync(t)
         \/ HubStep(t)
         \/ SendSyncDataStep(t)
SpecFull == InitFull /\ [][NextFull]_vars

\* a hub that is down: every request ends in a transport error or a 5xx answer
OutageCodes == {TransportError, 500}
\* randomDelay sleeps 100 ms or more before every request after a call's first, so
\* that a call makes only so many requests in an hour; here one, the hour being
\* the unit of the clock
RequestsPerHour == 1
randomDelay == syncGhost.nRequests < RequestsPerHour * (now + 1)
\* one sendSyncData call of a sync during the outage, on a queue that holds up to
\* two payloads; the clock is followed from the call's reading of it
InitOutage == \E queued \in 0..2 : InitSyncQueued("off", queued)
NextOutage ==
    \/ pc[SyncSender] \notin {"off", "ss_begin", "done"} /\ Tick
    \/ \E t \in {Background, SyncSender} :
         \/ Sync(t)
         \/ \E code \in OutageCodes : HubRespond(t, code)
         \/ SendSyncDataBegin(t)
         \/ GetAndResetRequestsRead(t)
         \/ GetAndResetRequestsReset(t)
         \/ GetAndResetValidationErrors(t)
         \/ GetAndResetServerErrors(t)
         \/ GetAndResetUpdatedConsumers(t)
         \/ SendSyncDataEnqueue(t)
         \/ SendSyncDataReceive(t)
         \/ randomDelay /\ SendSyncDataSend(t)
         \/ SendSyncDataStatus(t)
\* the goroutine keeps running and time keeps passing
SpecOutage == InitOutage /\ [][NextOutage]_vars /\ WF_vars(NextOutage)

\* The sendLogData calls of successive syncs during the outage, with the
\* maintenance goroutine and a LogRequest caller, from the state of InitRotate.
\* The two goroutines keep running, and a goroutine that waits for a sync.Mutex
\* gets it in the end (the mutex hands over to a waiter that has waited for 1 ms);
\* requests may or may not arrive.
SendLogDataDown(t) ==
    \/ NextSendLogData(t)
    \/ SendLogDataBegin(t)
    \/ RotateFileLock(t)
    \/ RotateFileBody(t)
    \/ RotateFileFull(t)
    \/ RotateFileResend(t)
    \/ SendLogDataGetFile(t)
    \/ SendLogDataSend(t)
    \/ \E code \in OutageCodes : HubRespond(t, code)
    \/ SendLogDataStatus(t)
MaintainDown(t) ==
    \/ MaintainStep(t)
    \/ RotateFileFull(t)
    \/ RotateFileResend(t)
NextDown ==
    \/ LogRequestBegin("h1", LogInput("http://h/items", "/items", "curl/8.5", FALSE, maxFileSize))
    \/ LogRequestIsEnabled("h1")
    \/ LogRequestIsSuspended("h1")
    \/ LogRequestSend("h1")
    \/ SendLogDataDown(LogSender)
    \/ MaintainDown(Maintenance)
SpecDown ==
    /\ InitRotate /\ [][NextDown]_vars
    /\ SF_vars(SendLogDataDown(LogSender))
    /\ SF_vars(MaintainDown(Maintenance))

\* ------------------------------------------------------------ properties: aggregators
Quiescent == \A t \in DOMAIN pc : pc[t] \in {"idle", "off"}
Resident == [req |-> MapSum(rc.requestCounts), srv |-> MapSum(sec.errorCounts),
             val |-> MapSum(vec.errorCounts), con |-> Cardinality(cr.updated)]

\* C3: under any interleaving of concurrent Add* calls and drains, every add is
\* reflected in exactly one drain result: once all calls have returned, the number
\* of adds made equals the counts drained so far plus the counts still held, for
\* each of the four aggregators.
C3_EveryAddInExactlyOneDrain ==
    Quiescent => \A a \in {"req", "srv", "val", "con"} :
                    aggGhost.addsDone[a] = aggGhost.drained[a] + Resident[a]

\* the same for the three aggregators whose methods take the mutex
LockedAddsInExactlyOneDrain ==
    \A a \in {"srv", "val", "con"} : aggGhost.addsDone[a] = aggGhost.drained[a] + Resident[a]

\* C4: GetAndResetRequests returns one item per distinct key of the AddRequest
\* calls made since the previous drain; the item's RequestCount is the number of
\* calls with that key, its response-time histogram counts every call once, in the
\* bucket b with b a multiple of 10 and b <= responseTime < b + 10, and the bucket
\* counts sum to RequestCount.
CallsWith(log, k) == {i \in DOMAIN log : RequestKey(log[i]) = k}
ItemKey(it) == <<it.consumer, it.method, it.path, it.status>>
InBucket(rt10, b) == b % 10 = 0 /\ b * 10 <= rt10 /\ rt10 < b * 10 + 100
C5_EnqueueNeverWaits ==
    \A t \in Handlers : pc[t] = "lr_resend" => Len(pendingWrites) < maxPendingWrites

\* C6: the pending-write queue never holds more than 100 records; the record a
\* LogRequest removes from the full queue is the oldest one in it, and the record
\* a LogRequest admits goes to the tail, behind every record already queued.
Stamps(q) == {q[i].stamp : i \in DOMAIN q}
Oldest(q) == CHOOSE r \in {q[i] : i \in DOMAIN q} : \A x \in Stamps(q) : r.stamp <= x
Without(q, r) == SelectSeq(q, LAMBDA x : x # r)
C6_BoundedDropOldest ==
    [][ /\ Len(pendingWrites') <= maxPendingWrites
        /\ \A t \in Handlers :
             /\ (pc[t] = "lr_drop" /\ pc'[t] = "lr_resend")
                  => pendingWrites' = Without(pendingWrites, Oldest(pendingWrites))
             /\ (pc[t] \in {"lr_send", "lr_resend"} /\ pc'[t] = "idle")
                  => /\ SubSeq(pendingWrites', 1, Len(pendingWrites)) = pendingWrites
                     /\ Len(pendingWrites') = Len(pendingWrites) + 1
                     /\ Last(pendingWrites').size = loc[t].in.size
                     /\ \A x \in Stamps(pendingWrites) : x < Last(pendingWrites').stamp
      ]_vars

\* the queue was full, a LogRequest removed its oldest record and admitted its own
C6_Witness ==
    /\ Len(pendingWrites) = maxPendingWrites
    /\ pendingWrites[1].stamp = 2
    /\ Last(pendingWrites).stamp = maxPendingWrites + 1
    /\ Last(pendingWrites).size = maxFileSize

\* C10: from the return of SuspendFor until the suspension window expires, the
\* pending-write queue, the open batch file and the completed-file queue are
\* empty, whatever LogRequest callers and the maintenance goroutine do.
C10_EmptyWhileSuspended ==
    (logGhost.suspended /\ suspendUntil # NoTime /\ now < suspendUntil)
        => (pendingWrites = <<>> /\ currentFile = NoFile /\ files = <<>>)

\* C11: once the window set by SuspendFor has run out, IsSuspended is false: a
\* LogRequest that makes the test then and passes the filters goes on to the
\* queue and its record is appended, whether or not the maintenance goroutine has
\* reset suspendUntil in the meantime, and without any call that resumes the logger.
WindowExpired == logGhost.suspended /\ (suspendUntil = NoTime \/ now >= suspendUntil)
C11_ResumesAfterExpiry ==
    [][ \A t \in Handlers :
          /\ (pc[t] = "lr_suspended" /\ pc'[t] # "lr_suspended" /\ WindowExpired
                  /\ ~LogRequestSkips(loc[t].in))
               => pc'[t] = "lr_send"
          /\ (pc[t] = "lr_send" /\ pc'[t] # "lr_send" /\ loc[t].late
                  /\ Len(pendingWrites) < maxPendingWrites)
               => /\ Len(pendingWrites') = Len(pendingWrites) + 1
                  /\ Last(pendingWrites').size = loc[t].in.size ]_vars

\* a record was enqueued by a call that made the test after the window had run
\* out, and the maintenance goroutine has not reset suspendUntil
C11_Witness ==
    /\ logGhost.resumed
    /\ suspendUntil # NoTime /\ now >= suspendUntil
    /\ pendingWrites # <<>>

\* ------------------------------------------------------------ properties: client
\* the step in which goroutine t hands a request to sendHubRequest
IssuesSync(t) == pc[t] = "ss_send" /\ pc'[t] = "hub_wait"

\* C1: metrics payloads are sent in creation order: a payload is never sent after
\* a payload created later was sent at a time when the first was neither delivered
\* nor dropped.
C1_PayloadsSentInCreationOrder ==
    [][ \A t \in DOMAIN pc :
          IssuesSync(t) => loc[t].payload.id \notin syncGhost.overtaken ]_vars

\* C2: within one sendSyncData call, a payload whose send ends in a retryable
\* error goes back to the queue, and the call makes no further hub request.
C2_RetryableErrorEndsSending ==
    [][ \A t \in DOMAIN pc :
          loc[t].op = "sendSyncData" =>
             /\ (pc[t] = "ss_status" /\ pc'[t] = "ss_recv" /\ loc[t].status = "RetryableError")
                  => (syncDataChan' # <<>> /\ Last(syncDataChan') = loc[t].payload)
             /\ loc[t].retried => ~IssuesSync(t) ]_vars

\* C7: once a hub request was answered with 404, the client is disabled and no
\* hub request of any kind is made any more, Shutdown included.
C7_NoRequestAfterInvalidClientId ==
    [][ syncGhost.got404 =>
          (~enabled' /\ syncGhost'.nRequests = syncGhost.nRequests) ]_vars

\* C8: when a log upload is answered with payment required, the file is deleted
\* and SuspendFor is called next, the logger is suspended for one hour, and no log
\* upload is issued during the hour that follows the answer.
C8_NoUploadAfterPaymentRequired ==
    [][ /\ \A t \in DOMAIN pc :
             loc[t].op = "sendLogData" =>
                /\ (pc[t] = "sl_status" /\ pc'[t] # "sl_status"
                        /\ loc[t].status = "PaymentRequired")
                     => (disk'[loc[t].logFile].deleted /\ pc'[t] = "sf_lock")
                /\ (pc[t] = "sf_lock" /\ pc'[t] # "sf_lock") => suspendUntil' = now + Hour
        /\ (syncGhost.payUntil # NoTime /\ now < syncGhost.payUntil)
             => syncGhost'.nUploads = syncGhost.nUploads ]_vars

\* C9: a payment-required answer to a log upload leaves metrics alone: no step of
\* sendHubRequest or sendLogData that handles it changes an aggregator, the queue
\* of sync payloads, the client's enabled flag or the state of the background cycle.
HandlesPaymentRequired(t) ==
    \/ /\ pc[t] = "hub_wait" /\ pc'[t] # "hub_wait"
       /\ loc[t].req.kind = "log" /\ loc'[t].status = "PaymentRequired"
    \/ /\ loc[t].op = "sendLogData" /\ loc[t].status = "PaymentRequired"
       /\ pc'[t] # pc[t]
C9_PaymentRequiredLeavesMetrics ==
    [][ \A t \in DOMAIN pc :
          HandlesPaymentRequired(t)
             => UNCHANGED <<rc, sec, vec, cr, syncDataChan, enabled, syncStopped, done>> ]_vars

\* a log upload was answered with payment required in one sync, and a later sync
\* is sending a metrics payload
C9_Witness ==
    /\ syncGhost.paySync > 0
    /\ syncGhost.nSyncs > syncGhost.paySync
    /\ pc[SyncSender] = "hub_wait"
    /\ suspendUntil # NoTime
    /\ enabled

\* C12: once Shutdown has returned, the logger is disabled, the pending-write
\* queue and the completed-file queue are empty, no batch file is open and every
\* batch file created so far is deleted, also when a sync was running when
\* Shutdown was called.
C12_CleanAfterShutdown ==
    pc[ShutdownCaller] = "done"
        => /\ ~rlEnabled
           /\ pendingWrites = <<>> /\ files = <<>> /\ currentFile = NoFile
           /\ \A f \in DOMAIN disk : disk[f].deleted

\* C13: the stop signal is raised exactly once: whenever a goroutine executes
\* close(c.done) in stopSync, under any interleaving of Shutdown with the 404
\* answers the senders handle, the channel is still open.
C13_StopSignalRaisedOnce ==
    [][ \A t \in DOMAIN pc :
          (pc[t] = "stop_close" /\ (pc'[t] # "stop_close" \/ (fatal' /\ ~fatal)))
             => done = "open" ]_vars

\* C14: after Shutdown has returned, the background goroutine starts no sync
\* any more, also when its ticker has a tick ready at the time done is closed.
C14_NoSyncAfterShutdown ==
    [][ pc[ShutdownCaller] = "done" => syncGhost'.nSyncs = syncGhost.nSyncs ]_vars

\* C15: RetryFileLater puts the file at the back of the completed-file queue when
\* the queue holds fewer than 50 files, and GetFile hands out the file at the front,
\* so the retried file comes after the files already queued; when the queue holds
\* 50 files the retried file is deleted from disk and the queue stays as it is.
C15_RetryAtBackOrDelete ==
    [][ \A t \in DOMAIN pc :
          /\ (pc[t] = "sl_status" /\ pc'[t] # "sl_status" /\ loc[t].status = "RetryableError")
               => IF Len(files) < 50
                  THEN /\ files' = Append(files, loc[t].logFile)
                       /\ disk' = disk
                  ELSE /\ files' = files
                       /\ disk'[loc[t].logFile].deleted
          /\ (pc[t] = "sl_get" /\ pc'[t] = "sl_send")
               => (loc'[t].logFile = Head(files) /\ files' = Tail(files)) ]_vars

\* the one upload of the call ended in a retryable error while the queue was full
\* again: the file taken from the front is deleted and the queue holds 50 files
C15_Witness ==
    /\ pc[LogSender] = "done"
    /\ syncGhost.nUploads = 1
    /\ Len(files) = maxFiles
    /\ disk[1].deleted

\* C16: a metrics payload or a log file whose send was answered with success or
\* with a validation error (422) is removed, the payload dropped and the file
\* deleted, and no request is made for it again, in the same sync or a later one.
IssuesLog(t) == pc[t] = "sl_send" /\ pc'[t] = "hub_wait"
C16_AcceptedNeverResent ==
    [][ \A t \in DOMAIN pc :
          /\ (pc[t] = "ss_status" /\ pc'[t] # "ss_status"
                  /\ loc[t].status \in {"OK", "ValidationError"})
               => /\ syncDataChan' = syncDataChan
                  /\ \A i \in DOMAIN syncDataChan' : syncDataChan'[i].id # loc[t].payload.id
          /\ (pc[t] = "sl_status" /\ pc'[t] # "sl_status"
                  /\ loc[t].status \in {"OK", "ValidationError"})
               => /\ disk'[loc[t].logFile].deleted
                  /\ \A i \in DOMAIN files' : files'[i] # loc[t].logFile
          /\ IssuesSync(t) => <<"sync", loc[t].payload.id>> \notin syncGhost.accepted
          /\ IssuesLog(t) => <<"log", loc[t].logFile>> \notin syncGhost.accepted ]_vars

\* the first payload and the first file were accepted in the initial sync, and
\* the sendLogData call of the next sync has run to its end
C16_Witness ==
    /\ <<"sync", 1>> \in syncGhost.accepted
    /\ <<"log", 1>> \in syncGhost.accepted
    /\ disk[1].deleted
    /\ syncGhost.nSyncs = 2
    /\ pc[LogSender] = "done"

\* C17: a payload that is taken from the queue more than one hour after its
\* creation timestamp is discarded: the step makes no hub request, the receiver
\* stays at the head of its loop to take the next payload, and no request is made
\* for a discarded payload afterwards.
C17_OldPayloadDiscarded ==
    [][ /\ (Len(syncDataChan') < Len(syncDataChan) /\ now - Head(syncDataChan).ts > 1)
             => /\ syncGhost'.nRequests = syncGhost.nRequests
                /\ Head(syncDataChan).id \in syncGhost'.settled
                /\ \A t \in DOMAIN pc : pc[t] = "ss_recv" => pc'[t] = "ss_recv"
        /\ \A t \in DOMAIN pc :
             IssuesSync(t) => loc[t].payload.id \notin syncGhost.settled ]_vars

\* the first payload went back to the queue after a retryable error and was
\* discarded when it was taken again more than an hour after its creation; the
\* same call has gone on to the payload queued behind it and is sending it
C17_Witness ==
    /\ pc[SyncSender] = "hub_wait"
    /\ loc[SyncSender].req.id = 2
    /\ 1 \in syncGhost.settled
    /\ syncGhost.nRequests = 2
    /\ loc[SyncSender].retried
    /\ loc[SyncSender].id = 1

\* C18: every sync starts sendStartupData, and a sendStartupData call that finds
\* startup data set and not yet acknowledged sends it; an answer other than
\* success leaves the data as it is, for the next cycle; on the success answer
\* the data is cleared and marked sent, and it stays so once the call has
\* returned; and no startup request goes out for data the hub has acknowledged:
\* after the acknowledgement only a new call of SetStartupData, whose data
\* carries a message UUID of its own, leads to another startup request.
IssuesStartup(t) ==
    pc[t] = "su_begin" /\ pc'[t] = "hub_wait" /\ loc'[t].req.kind = "startup"
C18_StartupDataSentUntilAcknowledged ==
    [][ /\ (pc[Background] = "bg_sync" /\ pc'[Background] # "bg_sync")
              => pc'[StartupSender] = "su_begin"
        /\ \A t \in DOMAIN pc :
             /\ (pc[t] = "su_begin" /\ pc'[t] # "su_begin"
                    /\ startupData /\ ~startupDataSent)
                  => (IssuesStartup(t) /\ loc'[t].req.id = syncGhost.nSets)
             /\ (pc[t] = "su_begin" /\ pc'[t] # "su_begin"
                    /\ ~(startupData /\ ~startupDataSent))
                  => (pc'[t] = "done" /\ syncGhost'.nRequests = syncGhost.nRequests)
             /\ (pc[t] = "su_status" /\ pc'[t] # "su_status")
                  => IF loc[t].status = "OK"
                     THEN ~startupData' /\ startupDataSent'
                     ELSE startupData' = startupData
                          /\ startupDataSent' = startupDataSent
             /\ IssuesStartup(t)
                  => syncGhost.nSets \notin syncGhost.acked
        /\ (syncGhost'.nSets \in syncGhost'.acked /\ mutex' = None)
              => (startupDataSent' /\ ~startupData')
      ]_vars
\* data acknowledged in the first cycle, set again, and sent again in the second
C18_Witness ==
    /\ pc[StartupSender] = "hub_wait"
    /\ loc[StartupSender].req = [kind |-> "startup", id |-> 1]
    /\ 0 \in syncGhost.acked
    /\ syncGhost.nSyncs = 2

\* C19: what a drain of the server-error or validation-error counter returns,
\* against the adds since the drain before: one entry for every key among the
\* adds and no other entry, the entry's count being the number of adds with
\* that key and its details those of the first of them; adds that agree in
\* consumer, upper-cased method, path, type, message and normalised stack trace
\* (for validation errors: consumer, upper-cased method, path, location,
\* trimmed message and type) are counted in one entry.
SameServerError(a, b) ==
    /\ a.consumer = b.consumer /\ ToUpper(a.method) = ToUpper(b.method)
    /\ a.path = b.path /\ a.type = b.type /\ a.msg = b.msg
    /\ stripStackTraceForHashing(a.stack) = stripStackTraceForHashing(b.stack)
SameValidationError(a, b) ==
    /\ a.consumer = b.consumer /\ ToUpper(a.method) = ToUpper(b.method)
    /\ a.path = b.path /\ a.loc = b.loc /\ TrimSpace(a.msg) = TrimSpace(b.msg)
    /\ a.type = b.type
ServerErrorsItemOf(e) ==
    [consumer |-> e.consumer, method |-> e.method, path |-> e.path, type |-> e.type,
     msg |-> truncateExceptionMessage(e.msg), stack |-> truncateExceptionStackTrace(e.stack)]
ValidationErrorsItemOf(v) ==
    [consumer |-> v.consumer, method |-> v.method, path |-> v.path,
     loc |-> SplitLoc(v.loc), msg |-> v.msg, type |-> v.type]
OneEntryPerKey(items, log, KeyOf(_), ItemOf(_), Same(_, _)) ==
    LET keys == {KeyOf(log[i]) : i \in DOMAIN log}
        Adds(k) == {i \in DOMAIN log : KeyOf(log[i]) = k}
        First(k) == CHOOSE i \in Adds(k) : \A j \in Adds(k) : i <= j
    IN  /\ Len(items) = Cardinality(keys)
        /\ \A k \in keys : \E n \in DOMAIN items :
              /\ items[n].errorCount = Cardinality(Adds(k))
              /\ items[n].details = ItemOf(log[First(k)])
        /\ \A n \in DOMAIN items : \E j \in DOMAIN log :
              /\ items[n].details = ItemOf(log[j])
              /\ items[n].errorCount >= Cardinality({i \in DOMAIN log : Same(log[i], log[j])})
        /\ ErrorItemCounts(items) = Len(log)
ConsumerCall == aggGhost'.conCalls # aggGhost.conCalls
ForStored(c) == ConsumerCall /\ ~c.nil /\ c.identifier \in DOMAIN cr.consumers
UpdatesStored(c) == ForStored(c) /\ ~(c.name = "" /\ c.group = "")
DrainsDirtyOnce ==
    \A t \in DOMAIN pc : (pc[t] = "gr_con" /\ pc'[t] # "gr_con") =>
        /\ Len(loc'[t].consumers) = Cardinality(cr.updated)
        /\ \A id \in cr.updated : \E n \in DOMAIN loc'[t].consumers :
              loc'[t].consumers[n] = cr.consumers[id]
        /\ cr'.updated = {}
        /\ cr'.consumers = cr.consumers
C20_AnyDifferenceMarksDirty ==
    [][ /\ LET c == aggGhost'.lastConsumer IN
           UpdatesStored(c) =>
             LET existing == cr.consumers[c.identifier] IN
             /\ (c.name = existing.name /\ c.group = existing.group)
                  => (cr'.updated = cr.updated /\ cr'.consumers = cr.consumers)
             /\ (c.name # existing.name \/ c.group # existing.group)
                  => c.identifier \in cr'.updated
        /\ DrainsDirtyOnce
      ]_vars

\* C20, amended: the call makes a stored identifier dirty exactly when it carries
\* a non-empty name that differs from the stored name or a non-empty group that
\* differs from the stored group; such a field replaces the stored one and an
\* empty field leaves the stored value (so a call with neither changes
\* nothing); no other identifier is touched.  The drain is as stated.
C20_NonEmptyDifferenceMarksDirty ==
    [][ /\ LET c == aggGhost'.lastConsumer IN
           ForStored(c) =>
             LET id == c.identifier
                 existing == cr.consumers[id]
                 newName == c.name # "" /\ c.name # existing.name
                 newGroup == c.group # "" /\ c.group # existing.group
             IN /\ cr'.updated = IF newName \/ newGroup THEN cr.updated \cup {id}
                                 ELSE cr.updated
                /\ DOMAIN cr'.consumers = DOMAIN cr.consumers
                /\ \A other \in DOMAIN cr.consumers \ {id} :
                      cr'.consumers[other] = cr.consumers[other]
                /\ cr'.consumers[id].identifier = id
                /\ cr'.consumers[id].name = IF newName THEN c.name ELSE existing.name
                /\ cr'.consumers[id].group = IF newGroup THEN c.group ELSE existing.group
        /\ DrainsDirtyOnce
      ]_vars
\* a consumer stored and drained, renamed, and drained a second time: returned
\* once per change, no longer dirty, the record kept under the new name
C20_Witness ==
    /\ aggGhost.drained.con = 2
    /\ aggGhost.conCalls = 2
    /\ aggGhost.lastConsumer = Consumer("c1", "Bob", "")
    /\ cr.updated = {}
    /\ "c1" \in DOMAIN cr.consumers
    /\ cr.consumers["c1"].name = "Bob"

\* C21: a call of AddOrUpdateConsumer with nil, or with a consumer that has
\* neither name nor group, leaves the stored records and the dirty set as they
\* were, for an identifier that is stored and for one that is not.
C21_PlaceholderIsNoOp ==
    [][ LET c == aggGhost'.lastConsumer IN
        (ConsumerCall /\ (c.nil \/ (c.name = "" /\ c.group = "")))
            => (cr'.consumers = cr.consumers /\ cr'.updated = cr.updated)
      ]_vars
\* a consumer stored, then the placeholder call for its identifier: the record
\* and the dirty set as the first call left them
C21_Witness ==
    /\ aggGhost.conCalls = 2
    /\ aggGhost.lastConsumer = Consumer("c1", "", "")
    /\ DOMAIN cr.consumers = {"c1"}
    /\ cr.consumers["c1"] = Consumer("c1", "Alice", "")
    /\ cr.updated = {"c1"}

\* C22: for each of the four aggregators, a drain of an aggregator that was
\* drained before, with no add call on it begun since, returns nothing.
Returns(t, entry) == pc[t] = entry /\ pc'[t] # entry
C22_SecondDrainIsEmpty ==
    [][ \A t \in DOMAIN pc :
          /\ (Returns(t, "gr_req") /\ aggGhost.fresh.req) => loc'[t].requests = <<>>
          /\ (Returns(t, "gr_srv") /\ aggGhost.fresh.srv) => loc'[t].serverErrors = <<>>
          /\ (Returns(t, "gr_val") /\ aggGhost.fresh.val) => loc'[t].validationErrors = <<>>
          /\ (Returns(t, "gr_con") /\ aggGhost.fresh.con) => loc'[t].consumers = <<>>
      ]_vars
\* a consumer stored, the registry drained (one record) and drained again: the
\* second call has returned nothing, the record is still stored
C22_Witness ==
    /\ aggGhost.nAdds = 1
    /\ aggGhost.nDrains = 2
    /\ ~aggGhost.fresh.req /\ ~aggGhost.fresh.srv /\ ~aggGhost.fresh.val
    /\ aggGhost.fresh.con
    /\ aggGhost.drained.con = 1
    /\ cr.consumers # EmptyMap
    /\ pc["h1"] = "idle"
    /\ loc["h1"].op = "gr_con"
    /\ loc["h1"].consumers = <<>>

\* C23: in what GetAndResetRequests returns for a key, every AddRequest call
\* with that key is counted in RequestCount and once in the response-time
\* histogram, whatever its sizes; the request (response) byte sum is the sum of
\* the non-negative request (response) sizes of those calls, and the request
\* (response) size histogram counts each call with a non-negative size s once,
\* in the bucket b with 1000 b <= s < 1000 (b + 1), and no other call.
InKb(s, b) == s >= 0 /\ 1000 * b <= s /\ s < 1000 * (b + 1)
RECURSIVE SumNonNegative(_, _, _)
SumNonNegative(log, calls, field) ==
    IF calls = {} THEN 0
    ELSE LET c == CHOOSE x \in calls : TRUE
             s == log[c][field]
         IN (IF s >= 0 THEN s ELSE 0) + SumNonNegative(log, calls \ {c}, field)
SizesCounted(log, calls, field, sum, histogram) ==
    /\ sum = SumNonNegative(log, calls, field)
    /\ \A c \in calls : log[c][field] >= 0 => \E b \in DOMAIN histogram : InKb(log[c][field], b)
    /\ \A b \in DOMAIN histogram :
          histogram[b] = Cardinality({c \in calls : InKb(log[c][field], b)})
    /\ MapSum(histogram) = Cardinality({c \in calls : log[c][field] >= 0})
C23_NegativeSizesLeftOut ==
    LET items == aggGhost.lastRequests.items
        log == aggGhost.lastRequests.log
    IN \A i \in DOMAIN items :
         LET it == items[i]
             calls == CallsWith(log, ItemKey(it))
         IN /\ it.requestCount = Cardinality(calls)
            /\ MapSum(it.responseTimes) = Cardinality(calls)
            /\ SizesCounted(log, calls, "reqSize", it.requestSizeSum, it.requestSizes)
            /\ SizesCounted(log, calls, "respSize", it.responseSizeSum, it.responseSizes)
\* a drain of two calls with one key, one of them with an unknown request size:
\* both counted, one request size and two response sizes, 3789 + 999 bytes
C23_Witness ==
    LET items == aggGhost.lastRequests.items
        log == aggGhost.lastRequests.log
    IN /\ Len(log) = 2 /\ Len(items) = 1
       /\ \E c \in DOMAIN log : log[c].reqSize < 0
       /\ items[1].requestCount = 2
       /\ MapSum(items[1].responseTimes) = 2
       /\ MapSum(items[1].requestSizes) = 1
       /\ items[1].requestSizeSum = 0
       /\ MapSum(items[1].responseSizes) = 2
       /\ items[1].responseSizeSum = 4788

\* C24 as stated: with logging enabled and not suspended, a request whose path
\* matches a built-in or user exclusion pattern, whose User-Agent matches a probe
\* pattern, or for which the exclude callback returns true adds no record to the
\* pending queue, and any other request adds exactly one; a disabled or suspended
\* logger adds no record for any request.
Excluded(in) ==
    \/ in.path \in {"/healthz", "/internal/jobs"}
    \/ in.userAgent = "kube-probe/1.29"
    \/ in.callback
AddsNone(t) == pc'[t] = "idle" /\ pendingWrites' = pendingWrites
GoesOnToQueue(t) == pc'[t] = "lr_send" /\ pendingWrites' = pendingWrites
AddsOneWhenRoom(t) ==
    (pc[t] = "lr_send" /\ pc'[t] # "lr_send" /\ Len(pendingWrites) < maxPendingWrites)
        => /\ pc'[t] = "idle"
           /\ Len(pendingWrites') = Len(pendingWrites) + 1
           /\ SubSeq(pendingWrites', 1, Len(pendingWrites)) = pendingWrites
           /\ Last(pendingWrites').size = loc[t].in.size
OffAddsNone(t) ==
    /\ (pc[t] = "lr_enabled" /\ pc'[t] # "lr_enabled")
          => IF rlEnabled THEN pc'[t] = "lr_suspended" /\ pendingWrites' = pendingWrites
             ELSE AddsNone(t)
    /\ (pc[t] = "lr_suspended" /\ pc'[t] # "lr_suspended" /\ IsSuspendedNow) => AddsNone(t)
Billion == 10^9
JStr(s) == [t |-> "str", s |-> s, pad |-> 0]
Text(s, pad) == [t |-> "str", s |-> s, pad |-> pad]
Num(hi, lo) == [t |-> "num", hi |-> hi, lo |-> lo]
Obj(o) == [t |-> "obj", o |-> o]
Arr(a) == [t |-> "arr", a |-> a]

\* 2^53 .. 2^59, the values from which a float64 has lost 1 .. 7 low bits
Pow2From53 == << Num(9007199, 254740992), Num(18014398, 509481984), Num(36028797, 18963968),
                 Num(72057594, 37927936), Num(144115188, 75855872),
                 Num(288230376, 151711744), Num(576460752, 303423488) >>
AtLeast(n, m) == n.hi > m.hi \/ (n.hi = m.hi /\ n.lo >= m.lo)
LostBits(n) == Cardinality({i \in DOMAIN Pow2From53 : AtLeast(n, Pow2From53[i])})
ModPow2(n, d) == (((n.hi % (2^d)) * (Billion % (2^d))) + (n.lo % (2^d))) % (2^d)
Plus(n, k) ==
    LET lo == n.lo + k
    IN  IF lo < 0 THEN Num(n.hi - 1, lo + Billion)
        ELSE IF lo >= Billion THEN Num(n.hi + 1, lo - Billion)
        ELSE Num(n.hi, lo)
\* strconv.ParseFloat(s, 64) of an integer literal: the nearest float64, ties to even
Float64(n) ==
    LET d == LostBits(n)
        r == ModPow2(n, d)
        odd == ModPow2(n, d + 1) >= 2^d
        up == r > 2^(d - 1) \/ (r = 2^(d - 1) /\ odd)
    IN  IF d = 0 THEN n ELSE Plus(n, IF up THEN 2^d - r ELSE 0 - r)

\* json.Unmarshal(body, &data) with data of type any: objects become
\* map[string]any, arrays []any, and every number a float64
RECURSIVE Unmarshal(_)
Unmarshal(v) ==
    CASE v.t = "obj" -> Obj([k \in DOMAIN v.o |-> Unmarshal(v.o[k])])
      [] v.t = "arr" -> Arr([i \in DOMAIN v.a |-> Unmarshal(v.a[i])])
      [] v.t = "num" -> Float64(v)
      [] OTHER -> v

masked == JStr("******")
\* the keys among the inputs that match a pattern: (?i)password, (?i)pwd and
\* (?i)token of maskBodyFieldPatterns, "internalId" a pattern of config.MaskBodyFields
shouldMaskBodyField(fieldName) ==
    fieldName \in {"password", "pwd", "accessToken", "internalId"}

RECURSIVE maskBodyFields(_)
maskBodyFields(data) ==
    CASE data.t = "obj" ->
           Obj([key \in DOMAIN data.o |->
                  IF shouldMaskBodyField(key) /\ data.o[key].t = "str" THEN masked
                  ELSE maskBodyFields(data.o[key])])
      [] data.t = "arr" -> Arr([i \in DOMAIN data.a |-> maskBodyFields(data.a[i])])
      [] OTHER -> data

\* ---- bodies: nil, bytes that are no JSON text (text followed by pad more
\* bytes), or the JSON text of a document with ws bytes of white space in it
NilBody == [kind |-> "nil"]
Raw(text, pad) == [kind |-> "raw", text |-> text, pad |-> pad]
Json(doc, ws) == [kind |-> "json", doc |-> doc, ws |-> ws]
bodyTooLarge == Raw("<body too large>", 0)
bodyMasked == Raw("<masked>", 0)
MaxBodySize == 50000

RECURSIVE Digits(_)
Digits(k) == IF k < 10 THEN 1 ELSE 1 + Digits(k \div 10)
Commas(n) == IF n = 0 THEN 0 ELSE n - 1
\* len(json.Marshal(data)): no white space, keys and strings in quotes
RECURSIVE MarshalLen(_)
MarshalLen(v) ==
    CASE v.t = "str" -> Len(v.s) + v.pad + 2
      [] v.t = "num" -> IF v.hi = 0 THEN Digits(v.lo) ELSE Digits(v.hi) + 9
      [] v.t = "obj" ->
           2 + Commas(Cardinality(DOMAIN v.o))
             + MapSum([k \in DOMAIN v.o |-> Len(k) + 3 + MarshalLen(v.o[k])])
      [] v.t = "arr" ->
           2 + Commas(Len(v.a)) + MapSum([i \in DOMAIN v.a |-> MarshalLen(v.a[i])])
BodyLen(body) ==
    CASE body.kind = "nil" -> 0
      [] body.kind = "raw" -> Len(body.text) + body.pad
      [] body.kind = "json" -> MarshalLen(body.doc) + body.ws

\* bytes that do not unmarshal come back as they are; otherwise the marshalled
\* document after the walk
maskJSONBody(body) ==
    IF body.kind # "json" THEN body ELSE Json(maskBodyFields(Unmarshal(body.doc)), 0)

hasSupportedContentType(ctype) == ctype \in {"application/json", "text/plain"}
hasJSONContentType(ctype) == ctype \in {"application/json"}

\* a masking callback of the configuration: not set, or set, with the value it
\* returns for the request at hand
NoCallback == [set |-> FALSE]
Callback(result) == [set |-> TRUE, result |-> result]

\* LogRequest: request.Body = nil unless the body is to be logged
LoggedBody(logBody, side) ==
    IF ~logBody \/ ~hasSupportedContentType(side.ctype) THEN NilBody ELSE side.body

\* applyMasking, for the body of one side: the callback, the size, the fields
AfterCallback(callback, body) ==
    IF callback.set /\ body # NilBody /\ body # bodyTooLarge
    THEN IF callback.result = NilBody THEN bodyMasked ELSE callback.result
    ELSE body
AfterSizeCheck(body) ==
    IF body # NilBody /\ BodyLen(body) > MaxBodySize THEN bodyTooLarge ELSE body
AfterFieldMasking(body, ctype) ==
    IF body # NilBody /\ body # bodyTooLarge /\ body # bodyMasked /\ hasJSONContentType(ctype)
    THEN maskJSONBody(body)
    ELSE body
\* the size looked at before the callback, and the callback's nil kept
applyMaskingSizeFirst(callback, body, ctype) ==
    AfterFieldMasking(
        IF body # NilBody /\ BodyLen(body) > MaxBodySize THEN bodyTooLarge
        ELSE IF callback.set /\ body # NilBody THEN AfterSizeCheck(callback.result)
        ELSE body, ctype)
applyMasking(callback, body, ctype) ==
    AfterFieldMasking(AfterSizeCheck(AfterCallback(callback, body)), ctype)

\* ---- inputs
Fn2(k1, v1, k2, v2) == [k \in {k1, k2} |-> IF k = k1 THEN v1 ELSE v2]
Fn3(k1, v1, k2, v2, k3, v3) ==
    [k \in {k1, k2, k3} |-> IF k = k1 THEN v1 ELSE IF k = k2 THEN v2 ELSE v3]
\* {"name":"alice","password":"s3cret"}
DocFlat == Obj(Fn2("name", JStr("alice"), "password", JStr("s3cret")))
\* {"user":{"pwd":"x","id":42},"items":[{"accessToken":"t","name":"n"},"plain",[{"internalId":"u1"}]]}
DocNested ==
    Obj(Fn2("user", Obj(Fn2("pwd", JStr("x"), "id", Num(0, 42))),
            "items", Arr(<< Obj(Fn2("accessToken", JStr("t"), "name", JStr("n"))), JStr("plain"),
                            Arr(<< Obj(Fn2("internalId", JStr("u1"), "name", JStr("m"))) >>) >>)))
\* {"password":1234,"accessToken":{"internalId":"u1","name":"n"},"pwd":["a","b"]}
DocNonString ==
    Obj(Fn3("password", Num(0, 1234),
            "accessToken", Obj(Fn2("internalId", JStr("u1"), "name", JStr("n"))),
            "pwd", Arr(<< JStr("a"), JStr("b") >>)))
\* {"id":9007199254740993,"name":"alice"}: the id is 2^53 + 1
DocBigId == Obj(Fn2("id", Num(9007199, 254740993), "name", JStr("alice")))
\* {"pad":"xxx...","pwd":""}, of MaxBodySize bytes
DocFull == Obj(Fn2("pad", Text("", MaxBodySize - 19), "pwd", JStr("")))
\* the same with a password of six characters, which masking does not lengthen
DocFullSame == Obj(Fn2("pad", Text("", MaxBodySize - 25), "pwd", JStr("s3cret")))

Side(body, ctype) == [body |-> body, ctype |-> ctype]
PlainSide == Side(Raw("ok", 0), "text/plain")
MaskInput(request, response, logBodies, maskRequest, maskResponse) ==
    [request |-> request, response |-> response, logBodies |-> logBodies,
     maskRequest |-> maskRequest, maskResponse |-> maskResponse]
\* the cases of one side: a body, its content type, whether bodies are logged,
\* and the callback
SideCases ==
    {<<Side(Json(d, 0), "application/json"), TRUE, NoCallback>> :
        d \in {DocFlat, DocNested, DocNonString, DocBigId, DocFull, DocFullSame}}
    \cup {<<Side(Raw("", n), "text/plain"), TRUE, NoCallback>> :
        n \in {MaxBodySize - 1, MaxBodySize, MaxBodySize + 1}}
    \cup {<<Side(Raw("", MaxBodySize + 1), "text/plain"), TRUE, c>> :
        c \in {Callback(NilBody), Callback(Raw("redacted", 0)), Callback(Raw("", MaxBodySize + 1))}}
    \cup {<<Side(Raw("hello", 0), "text/plain"), TRUE, c>> :
        c \in {Callback(NilBody), Callback(Raw("hello", 0)), Callback(Raw("", MaxBodySize)),
               Callback(Raw("", MaxBodySize + 1))}}
    \cup { <<Side(Json(DocFlat, 2), "application/json"), TRUE, Callback(Json(DocNested, 0))>>,
           <<Side(Json(DocFull, 1), "application/json"), TRUE, Callback(Json(DocFull, 0))>>,
           <<Side(Json(DocFull, 1), "application/json"), TRUE, NoCallback>>,
           <<Side(Json(DocFlat, 0), "text/plain"), TRUE, NoCallback>>,
           <<Side(Raw("test", 0), "application/json"), TRUE, NoCallback>>,
           <<Side(bodyTooLarge, "text/plain"), TRUE, Callback(Raw("redacted", 0))>>,
           <<Side(Raw("hello", 0), "image/png"), TRUE, Callback(Raw("redacted", 0))>>,
           <<Side(Raw("hello", 0), "text/plain"), FALSE, Callback(Raw("redacted", 0))>>,
           <<Side(NilBody, "text/plain"), TRUE, Callback(Raw("redacted", 0))>> }
MaskInputs ==
    {MaskInput(c[1], PlainSide, c[2], c[3], NoCallback) : c \in SideCases}
    \cup {MaskInput(PlainSide, c[1], c[2], NoCallback, c[3]) :
            c \in {x \in SideCases : x[3].set \/ x[1].body.kind = "json"}}

\* ---- LogRequest: past the tests and the exclusions, bodies that are not to be
\* logged are dropped and the item is queued as it is
LogRequestDeferred(t, in) ==
    /\ pc[t] = "idle" /\ ~fatal
    /\ t \in Handlers
    /\ logGhost.nLogs < MaxLogs
    /\ logGhost' = [logGhost EXCEPT !.nLogs = @ + 1]
    /\ IF ~rlEnabled \/ IsSuspendedNow \/ Len(pendingWrites) >= maxPendingWrites
       THEN UNCHANGED pendingWrites
       ELSE pendingWrites' = Append(pendingWrites,
                [in EXCEPT !.request.body = LoggedBody(in.logBodies, in.request),
                           !.response.body = LoggedBody(in.logBodies, in.response)])
    /\ UNCHANGED <<thrV, now, nonLogV>>
    /\ UNCHANGED <<rlEnabled, suspendUntil, currentFile, files, rlDone, enabledMutex,
                   currentFileMutex, disk>>

\* writeToFile, one round of its loop: an item is taken from the queue, masked and
\* handed to WriteLine; `item` is the item as received, `line` what is written
WriteMasked(t) ==
    /\ pc[t] = "mt_idle" /\ ~fatal
    /\ currentFileMutex = None
    /\ Len(pendingWrites) > 0
    /\ LET item == Head(pendingWrites)
       IN loc' = [loc EXCEPT ![t] =
                    [op |-> "writeToFile", item |-> item,
                     line |-> [request |-> applyMasking(item.maskRequest, item.request.body,
                                                        item.request.ctype),
                               response |-> applyMasking(item.maskResponse, item.response.body,
                                                         item.response.ctype)]]]
    /\ pendingWrites' = Tail(pendingWrites)
    /\ UNCHANGED <<pc, stack, fatal, now, nonLogV>>
    /\ UNCHANGED <<rlEnabled, suspendUntil, currentFile, files, rlDone, enabledMutex,
                   currentFileMutex, disk, logGhost>>

InitMask ==
    /\ pc = [t \in LogThreads |-> IF t = Maintenance THEN "mt_idle"
                                  ELSE IF t = Orchestrator THEN "off" ELSE "idle"]
    /\ stack = [t \in LogThreads |-> <<>>]
    /\ loc = [t \in LogThreads |-> NoLocals]
    /\ InitAggState
    /\ now = 0
    /\ rlEnabled = TRUE /\ suspendUntil = NoTime /\ rlDone = "open"
    /\ pendingWrites = <<>>
    /\ logGhost = [nLogs |-> 0, stamp |-> 0, nCtl |-> 0, suspended |-> FALSE, resumed |-> FALSE]
    /\ currentFile = NoFile /\ files = <<>>
    /\ enabledMutex = None /\ currentFileMutex = None /\ disk = <<>>
    /\ InitClientUnused
NextMask ==
    \/ \E in \in MaskInputs : LogRequestDeferred("h1", in)
    \/ WriteMasked(Maintenance)
SpecMask == InitMask /\ [][NextMask]_vars

\* ------------------------------------------------------- properties: deferred masking
Sides == {"request", "response"}
CallbackOf(item, side) == IF side = "request" THEN item.maskRequest ELSE item.maskResponse
Wrote(t) == loc[t].op = "writeToFile"

\* every position of a document: the keys and indexes that lead to it
RECURSIVE Paths(_)
Paths(v) ==
    {<<>>} \cup
    CASE v.t = "obj" -> UNION {{<<[k |-> key]>> \o q : q \in Paths(v.o[key])} : key \in DOMAIN v.o}
      [] v.t = "arr" -> UNION {{<<[i |-> n]>> \o q : q \in Paths(v.a[n])} : n \in DOMAIN v.a}
      [] OTHER -> {}
RECURSIVE At(_, _)
At(v, p) ==
    IF p = <<>> THEN v
    ELSE IF "k" \in DOMAIN Head(p) THEN At(v.o[Head(p).k], Tail(p))
    ELSE At(v.a[Head(p).i], Tail(p))
UnderMatchingKey(p) ==
    /\ p # <<>>
    /\ "k" \in DOMAIN Last(p)
    /\ Last(p).k \in {"password", "pwd", "accessToken", "internalId"}
FieldsMasked(v, w) ==
    /\ Paths(w) = Paths(v)
    /\ \A p \in Paths(v) :
          LET a == At(v, p)
              b == At(w, p)
          IN  IF a.t \in {"obj", "arr"} THEN b.t = a.t
              ELSE IF a.t = "str" /\ UnderMatchingKey(p) THEN b = JStr("******")
              ELSE b = a

\* C25: for a JSON body, field masking replaces by the mask token every string
\* that stands under a key matching a redaction pattern, at any depth through
\* objects and arrays, and leaves every other value as it was.
C25_OnlyMatchingStringsChange ==
    \A side \in Sides :
        (/\ Wrote(Maintenance)
         /\ ~CallbackOf(loc[Maintenance].item, side).set
         /\ loc[Maintenance].item[side].body.kind = "json"
         /\ loc[Maintenance].item[side].ctype = "application/json"
         /\ BodyLen(loc[Maintenance].item[side].body) <= MaxBodySize)
        => /\ loc[Maintenance].line[side].kind = "json"
           /\ FieldsMasked(loc[Maintenance].item[side].body.doc, loc[Maintenance].line[side].doc)

\* C26: no body written to a batch file is longer than 50,000 bytes: a body over
\* that size, as logged or as the masking callback returns it, is replaced by the
\* oversized-body sentinel, and a body of exactly 50,000 bytes is kept.
C26_WrittenBodiesWithinLimit ==
    \A side \in Sides :
        Wrote(Maintenance) =>
          LET body == loc[Maintenance].item[side].body
              callback == CallbackOf(loc[Maintenance].item, side)
              out == loc[Maintenance].line[side]
          IN  /\ BodyLen(out) <= 50000
              /\ (~callback.set /\ BodyLen(body) > 50000) => out = Raw("<body too large>", 0)
              /\ (callback.set /\ body.kind # "nil" /\ BodyLen(callback.result) > 50000)
                    => out = Raw("<body too large>", 0)
              /\ (~callback.set /\ body.kind = "raw" /\ BodyLen(body) = 50000) => out = body

WaitsOnFiles(t) == pc[t] = "rf_resend" /\ Len(files) >= maxFiles
WaitsOnCurrentFileMutex(t) == pc[t] \in {"rf_lock", "wf_lock"} /\ currentFileMutex \notin {None, t}
MutualWait ==
    /\ WaitsOnFiles(Maintenance) /\ currentFileMutex = Maintenance
    /\ WaitsOnCurrentFileMutex(LogSender)
C28_NobodyWaitsOnFiles == (\A t \in RetryThreads : ~WaitsOnFiles(t)) /\ ~MutualWait

C30_SendSyncDataReturns == <>(pc[SyncSender] = "done")

\* ------------------------------------------------------- properties: upload loop
\* C31: one sendLogData call issues at most 10 upload requests: it issues one only
\* in an iteration i < 10, every upload that ends neither in a retryable error nor
\* in payment required ends the iteration (i + 1), and i changes nowhere else; after
\* an upload that ends in a retryable error or in payment required the call leaves
\* its loop and issues no upload any more.
IssuesUpload(t) == pc[t] = "sl_send" /\ pc'[t] = "hub_wait"
EndsLoop(status) == status \in {"RetryableError", "PaymentRequired"}
C31_AtMostTenUploadsPerCall ==
    [][ \A t \in DOMAIN pc :
          (loc[t].op = "sendLogData" /\ loc'[t].op = "sendLogData") =>
             /\ IssuesUpload(t) => (loc[t].i < 10 /\ ~EndsLoop(loc[t].status))
             /\ IF pc[t] = "sl_status" /\ pc'[t] # "sl_status"
                THEN IF EndsLoop(loc[t].status)
                     THEN pc'[t] \notin {"sl_get", "sl_send", "hub_wait"}
                     ELSE loc'[t].i = loc[t].i + 1
                ELSE loc'[t].i = loc[t].i
             /\ (pc[t] # "hub_wait" /\ EndsLoop(loc[t].status))
                  => (pc'[t] \notin {"sl_get", "sl_send", "hub_wait"}
                        /\ EndsLoop(loc'[t].status)) ]_vars

\* the call has made its tenth iteration and returned with files left in the queue
C31_Witness ==
    /\ pc[LogSender] = "done"
    /\ files # <<>>
    /\ syncGhost.nUploads = MaxRequests - 1
    /\ \A f \in 1..10 : disk[f].deleted
    /\ suspendUntil = NoTime

\* ------------------------------------------------------- properties: rotation
\* C32: in a tick of the maintenance goroutine that has written, an open batch file
\* of more than 1,000,000 bytes is rotated: when rotateFile returns the file is
\* closed and is the last of the completed-file queue, and no file is open; an open
\* file of 1,000,000 bytes or less is left as it is, open and outside the queue,
\* and the rest of the tick does not touch it.
InQueue(f) == \E i \in 1..Len(files) : files[i] = f
LeavesRotateFile(t) == pc[t] \in {"rf_body", "rf_full", "rf_resend"} /\ pc'[t] = "mt_prune"
C32_RotatesAboveThreshold ==
    [][ LET t == Maintenance
            f == currentFile
        IN /\ (pc[t] = "mt_size" /\ pc'[t] # "mt_size" /\ f # NoFile)
                => IF disk[f].size > 1000000
                   THEN pc'[t] = "rf_lock"
                   ELSE /\ pc'[t] = "mt_prune"
                        /\ currentFile' = f /\ ~disk'[f].closed /\ ~InQueue(f)'
           /\ (LeavesRotateFile(t) /\ f # NoFile)
                => /\ disk'[f].closed /\ ~disk'[f].deleted
                   /\ files' # <<>> /\ Last(files') = f
                   /\ currentFile' = NoFile
           /\ (pc[t] \in {"mt_prune", "mt_resume"} /\ pc'[t] # pc[t])
                => (currentFile' = f /\ (f # NoFile => disk'[f] = disk[f]))
           /\ pc'[t] \in {"mt_prune", "mt_resume"}
                => (currentFile' = NoFile \/ disk'[currentFile'].size <= 1000000) ]_vars

\* C33: the completed-file queue never holds more than 50 files; a rotateFile call
\* that finds 50 files queued deletes the oldest of them from disk and enqueues the
\* file it has closed: it takes the head of the queue, finds room for its own file
\* and returns with that file as the last of the queue.
C33_FullQueueEvictsOldest ==
    [][ /\ Len(files') <= 50
        /\ \A t \in DOMAIN pc :
             LET f == currentFile
             IN /\ (pc[t] = "rf_full" /\ pc'[t] # "rf_full")
                     => /\ files # <<>>
                        /\ disk'[Head(files)].deleted
                        /\ files' = Tail(files)
                        /\ pc'[t] = "rf_resend"
                /\ pc'[t] = "rf_resend" => Len(files') < 50
                /\ (pc[t] = "rf_resend" /\ pc'[t] # "rf_resend")
                     => (files' = Append(files, f) /\ ~disk'[f].deleted
                           /\ currentFile' = NoFile) ]_vars

\* ------------------------------------------------------- properties: ownership
\* C34: a batch file GetFile has returned to a sendLogData call is that call's alone
\* until the call deletes it or hands it back with RetryFileLater: it is not the
\* logger's open file, it is not in the completed-file queue, no other call holds
\* it, and as long as it is held nothing about it changes on disk.
Holds(t, f) ==
    /\ loc[t].op = "sendLogData"
    /\ pc[t] \in {"sl_send", "hub_wait", "stop_check", "stop_close", "sl_status"}
    /\ loc[t].logFile = f
C34_HeldFileIsExclusive ==
    [][ \A t \in DOMAIN pc : \A f \in DOMAIN disk :
          Holds(t, f)' =>
             /\ currentFile' # f
             /\ ~InQueue(f)'
             /\ \A u \in DOMAIN pc \ {t} : ~Holds(u, f)'
             /\ ~disk'[f].deleted /\ disk'[f].closed
             /\ Holds(t, f) => disk'[f] = disk[f] ]_vars

\* two sendLogData calls, that of a sync and that of Shutdown, hold a file each
C34_Witness ==
    /\ \E f \in DOMAIN disk : Holds(LogSender, f)
    /\ \E f \in DOMAIN disk : Holds(ShutdownCaller, f)

\* ------------------------------------------------------- properties: queued records
\* C35: a record is masked before it enters the pending-write queue: the queue
\* holds no record with a body that masking would still change (a body over the
\* size limit, a JSON body with a field to redact, a body the masking callback
\* replaces).
C35_QueuedRecordsAreMasked ==
    \A i \in 1..Len(pendingWrites) : \A side \in Sides :
        LET item == pendingWrites[i]
        IN  applyMasking(CallbackOf(item, side), item[side].body, item[side].ctype)
              = item[side].body

\* ------------------------------------------------------- properties: first-seen details
\* C36: an AddServerError for a key that is present since the last drain adds one
\* to the count of that key and changes nothing else: the details stored for the
\* key (consumer, method, path, type, message, stack trace) stay those of the first
\* occurrence, and no other key's count or details change.
AddsServerError == aggGhost'.addsDone.srv # aggGhost.addsDone.srv
C36_LaterAddsOnlyCount ==
    [][ AddsServerError =>
          LET key == ServerErrorKey(Last(aggGhost'.errLog.srv))
          IN  key \in DOMAIN sec.errorDetails =>
                /\ sec'.errorDetails = sec.errorDetails
                /\ DOMAIN sec'.errorCounts = DOMAIN sec.errorCounts
                /\ \A k \in DOMAIN sec.errorCounts :
                      sec'.errorCounts[k] = sec.errorCounts[k] + (IF k = key THEN 1 ELSE 0) ]_vars

\* a second occurrence on another goroutine, with the method in other case, was
\* counted under the key of the first, whose details are still stored
C36_Witness ==
    /\ aggGhost.errLog.srv # <<>>
    /\ LET e == Last(aggGhost.errLog.srv)
           key == ServerErrorKey(e)
       IN  /\ key \in DOMAIN sec.errorDetails
           /\ sec.errorCounts[key] = 2
           /\ sec.errorDetails[key].method # e.method
           /\ sec.errorDetails[key].stack # truncateExceptionStackTrace(e.stack)

\* ------------------------------------------------------- properties: locks and I/O
\* a LogRequest whose IsEnabled or IsSuspended waits for enabledMutex
WaitsForEnabledMutex(t) ==
    /\ pc[t] \in {"lr_enabled", "lr_suspended"}
    /\ enabledMutex \notin {None, t}

\* the goroutine is at currentFile.Close() or at a file's Delete()
PerformsFileIO(u) ==
    \/ pc[u] = "rf_body" /\ currentFile # NoFile
    \/ pc[u] = "rf_full"
    \/ pc[u] = "cl_files_recv" /\ files # <<>>

\* C37: no request-handling call waits for a lock whose holder is performing file
\* or network I/O: while a LogRequest waits for enabledMutex, the goroutine that
\* holds it is not closing or deleting a batch file.
C37_HandlersNeverWaitOnIO ==
    \A t \in Handlers : ~(WaitsForEnabledMutex(t) /\ PerformsFileIO(enabledMutex))

\* ------------------------------------------------------- properties: requeued payloads
\* the sendSyncData call has a payload in hand: received, not yet settled or requeued
HasInHand(t) ==
    /\ loc[t].op = "sendSyncData"
    /\ pc[t] \in {"ss_send", "hub_wait", "stop_check", "stop_close", "ss_status"}

\* the copies of the message with this UUID, queued or in the hand of a call
QueuedCopies(id) == {i \in 1..Len(syncDataChan) : syncDataChan[i].id = id}
HeldCopies(id) == {t \in DOMAIN pc : HasInHand(t) /\ loc[t].payload.id = id}
Copies(id) == Cardinality(QueuedCopies(id)) + Cardinality(HeldCopies(id))
PayloadOf(id) ==
    IF QueuedCopies(id) # {} THEN syncDataChan[CHOOSE i \in QueuedCopies(id) : TRUE]
    ELSE loc[CHOOSE t \in HeldCopies(id) : TRUE].payload
MessageIds == 1..(syncGhost.nextId - 1)

C40_SizeCountsSuccessfulWrites ==
    LET c == loc[Orchestrator]
        f == disk[TestFile]
    IN  /\ f.size = c.written
        /\ (c.last = "WriteLine" /\ c.wasClosed) => (c.err /\ f.size = c.sizeBefore)

\* lines were written, one write failed on the disk, the file was closed, and a
\* WriteLine after that has returned its error
C40_Witness ==
    LET c == loc[Orchestrator]
    IN  /\ c.last = "WriteLine" /\ c.wasClosed /\ c.err
        /\ c.written = 300 + 1
        /\ c.calls = MaxWrites
        /\ ~disk[TestFile].deleted

\* ------------------------------------------------------- properties: message truncation
\* C39: truncateExceptionMessage returns a message of at most 2048 bytes as it is,
\* and of a longer one the first bytes followed by the truncation marker, 2048
\* bytes in all: so is the message stored for every error added since the last
\* drain.
C39_MessageTruncatedToLimit ==
    \A i \in 1..Len(aggGhost.errLog.srv) :
        LET e == aggGhost.errLog.srv[i]
            out == sec.errorDetails[ServerErrorKey(e)].msg
        IN  /\ out = truncateExceptionMessage(e.msg)
            /\ IF ByteLen(e.msg) <= 2048 THEN out = e.msg
               ELSE ByteLen(out) = 2048 /\ out.marker /\ out.text = e.msg.text

\* a message of 2049 bytes is stored cut, next to one of 2048 bytes stored whole
C39_Witness ==
    /\ \E i \in 1..Len(aggGhost.errLog.srv) :
          LET e == aggGhost.errLog.srv[i]
          IN  /\ ByteLen(e.msg) = 2049 /\ ~e.msg.marker
              /\ sec.errorDetails[ServerErrorKey(e)].msg.marker
    /\ \E i \in 1..Len(aggGhost.errLog.srv) :
          LET e == aggGhost.errLog.srv[i]
          IN  /\ ByteLen(e.msg) = 2048 /\ ~e.msg.marker
              /\ sec.errorDetails[ServerErrorKey(e)].msg = e.msg

====
